---------------------------- MODULE Spec2Model ----------------------------
(***************************************************************************)
(* A state-machine model of rtsched-rs: the TimeSpec arithmetic and the    *)
(* ClockId mapping (src/src/lowlevel/clock.rs, src/src/clock.rs), the      *)
(* CpuSet bit mask (src/src/lowlevel/sched.rs) and the scheduler surface   *)
(* (src/src/sched.rs) on a 64-bit target (c_long = i64, Map = u64).        *)
(*                                                                         *)
(* i64 values do not fit the model checker's native integers, so an        *)
(* integer is held exactly, as a sign and a little-endian sequence of      *)
(* base-1000 digits without leading zeros.  The Rust operators + - * / %   *)
(* are computed on this representation; a result outside the i64 range is  *)
(* an arithmetic overflow (a panic in a debug build, a wrapped value in a  *)
(* release build) and is recorded as such.                                 *)
(***************************************************************************)
EXTENDS Integers, Sequences, FiniteSets, TLC

VARIABLES
    \* ---- TimeSpec calculator (lowlevel/clock.rs)
    na, nb,        \* the two i64 arguments a caller holds
    tx, ty,        \* TimeSpec::nanoseconds(na), TimeSpec::nanoseconds(nb), once built
    tz,            \* the result of the last tx + ty or tx - ty
    out,           \* the result of the last as_nanoseconds call
    \* ---- CpuSet (lowlevel/sched.rs)
    cs,            \* the mask a caller holds
    csPrev,        \* the mask before the last set / clear
    csOp,          \* the last CpuSet call and its outcome
    csOps,         \* number of set / clear calls made so far
    \* ---- Policy / ClockId codecs (sched.rs, clock.rs)
    codec,         \* the last from_raw / as_raw call and its outcome
    \* ---- scheduler surface (sched.rs) and the kernel behind it
    kattr,         \* kernel: pid -> the sched_attr record the kernel reports
    kaff,          \* kernel: pid -> set of CPUs the thread may run on
    ret,           \* the outcome of the last call of the scheduler surface
    calls,         \* number of scheduler-surface calls made so far
    sys,           \* the syscalls the last call issued, with the kernel's answers
    arg,           \* the arguments a caller of the setters holds
    \* ---- clocks (clock.rs) and callers running side by side
    kclock,        \* kernel: raw clock id -> the time the clock shows, in seconds
    procs          \* caller -> its target pid, program, position and what it has read

timeVars  == <<na, nb, tx, ty, tz, out>>
cpuVars   == <<cs, csPrev, csOp, csOps>>
codecVars == <<codec>>
schedVars == <<kattr, kaff, ret, calls, sys, arg, kclock, procs>>
vars == <<timeVars, cpuVars, codecVars, schedVars>>

---------------------------------------------------------------------------
(* Exact integers: [neg, mag], mag little-endian base-1000 digits.         *)

Base == 1000

Max(i, j) == IF i >= j THEN i ELSE j
Min(i, j) == IF i <= j THEN i ELSE j

RECURSIVE Strip(_)
Strip(m) ==
    IF m = <<>> THEN <<>>
    ELSE IF m[Len(m)] = 0 THEN Strip(SubSeq(m, 1, Len(m) - 1)) ELSE m

Limb(m, i) == IF i <= Len(m) THEN m[i] ELSE 0

RECURSIVE CmpFrom(_, _, _)
CmpFrom(m1, m2, i) ==
    IF i = 0 THEN 0
    ELSE IF Limb(m1, i) < Limb(m2, i) THEN -1
    ELSE IF Limb(m1, i) > Limb(m2, i) THEN 1
    ELSE CmpFrom(m1, m2, i - 1)

\* -1, 0, 1 as m1 <, =, > m2
MagCmp(m1, m2) == CmpFrom(m1, m2, Max(Len(m1), Len(m2)))

RECURSIVE AddFrom(_, _, _, _)
AddFrom(m1, m2, i, carry) ==
    IF i > Max(Len(m1), Len(m2))
    THEN (IF carry = 0 THEN <<>> ELSE <<carry>>)
    ELSE LET s == Limb(m1, i) + Limb(m2, i) + carry
         IN  <<s % Base>> \o AddFrom(m1, m2, i + 1, s \div Base)

MagAdd(m1, m2) == AddFrom(m1, m2, 1, 0)

RECURSIVE SubFrom(_, _, _, _)
SubFrom(m1, m2, i, borrow) ==
    IF i > Len(m1) THEN <<>>
    ELSE LET d == Limb(m1, i) - Limb(m2, i) - borrow
         IN  IF d < 0 THEN <<d + Base>> \o SubFrom(m1, m2, i + 1, 1)
                      ELSE <<d>> \o SubFrom(m1, m2, i + 1, 0)

\* m1 - m2, for m1 >= m2
MagSub(m1, m2) == Strip(SubFrom(m1, m2, 1, 0))

Big(neg, mag) == [neg |-> neg /\ mag # <<>>, mag |-> mag]

RECURSIVE NatLimbs(_)
NatLimbs(k) == IF k = 0 THEN <<>> ELSE <<k % Base>> \o NatLimbs(k \div Base)

\* a native integer as an exact integer
FromInt(k) == IF k < 0 THEN Big(TRUE, NatLimbs(-k)) ELSE Big(FALSE, NatLimbs(k))

Zero == FromInt(0)

Neg(x) == Big(~x.neg, x.mag)

Plus(x, y) ==
    IF x.neg = y.neg THEN Big(x.neg, MagAdd(x.mag, y.mag))
    ELSE IF MagCmp(x.mag, y.mag) >= 0 THEN Big(x.neg, MagSub(x.mag, y.mag))
    ELSE Big(y.neg, MagSub(y.mag, x.mag))

Minus(x, y) == Plus(x, Neg(y))

\* x < y
Less(x, y) ==
    IF x.neg # y.neg THEN x.neg
    ELSE IF x.neg THEN MagCmp(x.mag, y.mag) > 0
    ELSE MagCmp(x.mag, y.mag) < 0

Zeros(k) == [i \in 1..k |-> 0]

\* x * 1000^k
MulPow(x, k) == IF x.mag = <<>> THEN x ELSE Big(x.neg, Zeros(k) \o x.mag)

\* Rust's x / 1000^k on integers: the quotient truncated toward zero
TruncDivPow(x, k) == Big(x.neg, SubSeq(x.mag, k + 1, Len(x.mag)))

\* Rust's x % 1000^k: the remainder, which takes the sign of the dividend
TruncRemPow(x, k) == Big(x.neg, Strip(SubSeq(x.mag, 1, Min(k, Len(x.mag)))))

\* 2^63 = 9_223_372_036_854_775_808
Mag2p63 == <<808, 775, 854, 36, 372, 223, 9>>

I64_MIN == Big(TRUE, Mag2p63)
I64_MAX == Big(FALSE, MagSub(Mag2p63, <<1>>))

FitsI64(x) ==
    IF x.neg THEN MagCmp(x.mag, Mag2p63) <= 0 ELSE MagCmp(x.mag, Mag2p63) < 0


---------------------------------------------------------------------------
(* TimeSpec (lowlevel/clock.rs)                                            *)

\* 1_000_000_000 = 1000^3: the exponent of the nanoseconds-per-second scale
NANOS_PER_SEC_E3 == 3

\* bounds of the caller's i64 arguments: whole seconds -SecSpan..SecSpan,
\* offsets -NsSpan..NsSpan around them, and the EdgeSpan + 1 values at each
\* end of the i64 range
SecSpan == 2
NsSpan == 1
EdgeSpan == 1

I64Inputs ==
    {Plus(MulPow(FromInt(s), NANOS_PER_SEC_E3), FromInt(r)) :
        s \in -SecSpan..SecSpan, r \in -NsSpan..NsSpan}
    \cup {Minus(I64_MAX, FromInt(k)) : k \in 0..EdgeSpan}
    \cup {Plus(I64_MIN, FromInt(k)) : k \in 0..EdgeSpan}

\* the result of an i64 operation: the value, or an overflow
Checked(x) == IF FitsI64(x) THEN [ok |-> TRUE, v |-> x] ELSE [ok |-> FALSE, v |-> Zero]
Overflow == [ok |-> FALSE, v |-> Zero]

TimeSpec(sec, nsec) == [tv_sec |-> sec, tv_nsec |-> nsec]

zeroed == TimeSpec(Zero, Zero)

\* mutant: the split by floor division and a non-negative remainder
nanoseconds_floor(n) ==
    LET q == TruncDivPow(n, NANOS_PER_SEC_E3)
        r == TruncRemPow(n, NANOS_PER_SEC_E3)
    IN  IF r.neg
        THEN TimeSpec(Minus(q, FromInt(1)), Plus(r, MulPow(FromInt(1), NANOS_PER_SEC_E3)))
        ELSE TimeSpec(q, r)

\* TimeSpec::nanoseconds: (n / 1_000_000_000, n % 1_000_000_000)
nanoseconds(n) ==
    TimeSpec(TruncDivPow(n, NANOS_PER_SEC_E3), TruncRemPow(n, NANOS_PER_SEC_E3))

\* mutant: the seconds scaled as as_microseconds scales them
as_nanoseconds_micro(t) ==
    LET prod == Checked(MulPow(t.tv_sec, NANOS_PER_SEC_E3 - 1))
    IN  IF ~prod.ok THEN Overflow ELSE Checked(Plus(prod.v, t.tv_nsec))

\* TimeSpec::as_nanoseconds: tv_sec * 1_000_000_000 + tv_nsec, each step in i64
as_nanoseconds(t) ==
    LET prod == Checked(MulPow(t.tv_sec, NANOS_PER_SEC_E3))
    IN  IF ~prod.ok THEN Overflow ELSE Checked(Plus(prod.v, t.tv_nsec))

\* mutant: microseconds scaled as as_milliseconds scales them
as_microseconds_milli(t) ==
    LET prod == Checked(MulPow(t.tv_sec, 1))
    IN  IF ~prod.ok THEN Overflow ELSE Checked(Plus(prod.v, TruncDivPow(t.tv_nsec, 2)))

\* TimeSpec::as_microseconds: tv_sec * 1_000_000 + tv_nsec / 1_000
as_microseconds(t) ==
    LET prod == Checked(MulPow(t.tv_sec, 2))
    IN  IF ~prod.ok THEN Overflow ELSE Checked(Plus(prod.v, TruncDivPow(t.tv_nsec, 1)))

\* TimeSpec::as_milliseconds: tv_sec * 1_000 + tv_nsec / 1_000_000
as_milliseconds(t) ==
    LET prod == Checked(MulPow(t.tv_sec, 1))
    IN  IF ~prod.ok THEN Overflow ELSE Checked(Plus(prod.v, TruncDivPow(t.tv_nsec, 2)))

\* a TimeSpec register: not built yet, a value, or lost to an overflow
NoTime == [st |-> "none", ts |-> zeroed]
SomeTime(t) == [st |-> "ok", ts |-> t]
LostTime == [st |-> "overflow", ts |-> zeroed]

\* TimeSpec values a caller writes field by field (both fields are pub):
\* whole seconds -RawSecSpan..RawSecSpan with a tv_nsec of either sign at,
\* below and beyond one second, and one whose seconds do not fit in
\* nanoseconds
RawSecSpan == 2

RawNsecs ==
    {0, 1, -1, 999999999, -999999999, 1000000000, -1000000000, 1500000000, -1500000000}

RawTimes ==
    {TimeSpec(FromInt(s), FromInt(n)) : s \in -RawSecSpan..RawSecSpan, n \in RawNsecs}
    \cup {TimeSpec(I64_MAX, Zero)}

\* mutant: the fields added one by one, with no renormalisation
add_fieldwise(x, y) ==
    LET sec == Checked(Plus(x.tv_sec, y.tv_sec))
        nsec == Checked(Plus(x.tv_nsec, y.tv_nsec))
    IN  IF sec.ok /\ nsec.ok THEN SomeTime(TimeSpec(sec.v, nsec.v)) ELSE LostTime

\* mutant: the operands subtracted
add_as_sub(x, y) ==
    LET a == as_nanoseconds(x)
        b == as_nanoseconds(y)
    IN  IF ~a.ok \/ ~b.ok THEN LostTime
        ELSE LET s == Checked(Minus(a.v, b.v))
             IN  IF s.ok THEN SomeTime(nanoseconds(s.v)) ELSE LostTime

\* impl Add for TimeSpec
add(x, y) ==
    LET a == as_nanoseconds(x)
        b == as_nanoseconds(y)
    IN  IF ~a.ok \/ ~b.ok THEN LostTime
        ELSE LET s == Checked(Plus(a.v, b.v))
             IN  IF s.ok THEN SomeTime(nanoseconds(s.v)) ELSE LostTime

\* impl Sub for TimeSpec
sub(x, y) ==
    LET a == as_nanoseconds(x)
        b == as_nanoseconds(y)
    IN  IF ~a.ok \/ ~b.ok THEN LostTime
        ELSE LET s == Checked(Minus(a.v, b.v))
             IN  IF s.ok THEN SomeTime(nanoseconds(s.v)) ELSE LostTime

NoOut == [of |-> "none", ok |-> FALSE, v |-> Zero]
NoSum == [op |-> "none", st |-> "none", ts |-> zeroed]

\* let tx = TimeSpec::nanoseconds(na)
BuildX ==
    /\ tx.st = "none"
    /\ tx' = SomeTime(nanoseconds(na))
    /\ UNCHANGED <<na, nb, ty, tz, out, cpuVars, codecVars, schedVars>>

\* let ty = TimeSpec::nanoseconds(nb)
BuildY ==
    /\ ty.st = "none"
    /\ ty' = SomeTime(nanoseconds(nb))
    /\ UNCHANGED <<na, nb, tx, tz, out, cpuVars, codecVars, schedVars>>

\* let tz = tx + ty
TimeAdd ==
    /\ tx.st = "ok" /\ ty.st = "ok"
    /\ LET r == add(tx.ts, ty.ts) IN tz' = [op |-> "add", st |-> r.st, ts |-> r.ts]
    /\ UNCHANGED <<na, nb, tx, ty, out, cpuVars, codecVars, schedVars>>

\* let tz = tx - ty
TimeSub ==
    /\ tx.st = "ok" /\ ty.st = "ok"
    /\ LET r == sub(tx.ts, ty.ts) IN tz' = [op |-> "sub", st |-> r.st, ts |-> r.ts]
    /\ UNCHANGED <<na, nb, tx, ty, out, cpuVars, codecVars, schedVars>>

\* tx.as_nanoseconds()
AsNanosX ==
    /\ tx.st = "ok"
    /\ LET r == as_nanoseconds(tx.ts) IN out' = [of |-> "x", ok |-> r.ok, v |-> r.v]
    /\ UNCHANGED <<na, nb, tx, ty, tz, cpuVars, codecVars, schedVars>>

\* tz.as_nanoseconds()
AsNanosZ ==
    /\ tz.st = "ok"
    /\ LET r == as_nanoseconds(tz.ts) IN out' = [of |-> tz.op, ok |-> r.ok, v |-> r.v]
    /\ UNCHANGED <<na, nb, tx, ty, tz, cpuVars, codecVars, schedVars>>

\* let tx = TimeSpec { tv_sec, tv_nsec }
LiteralX ==
    /\ tx.st = "none"
    /\ \E t \in RawTimes : tx' = SomeTime(t)
    /\ UNCHANGED <<na, nb, ty, tz, out, cpuVars, codecVars, schedVars>>

\* tx.as_microseconds()
AsMicrosX ==
    /\ tx.st = "ok"
    /\ LET r == as_microseconds(tx.ts)
       IN  out' = [of |-> "as_microseconds", ok |-> r.ok, v |-> r.v]
    /\ UNCHANGED <<na, nb, tx, ty, tz, cpuVars, codecVars, schedVars>>

\* tx.as_milliseconds()
AsMillisX ==
    /\ tx.st = "ok"
    /\ LET r == as_milliseconds(tx.ts)
       IN  out' = [of |-> "as_milliseconds", ok |-> r.ok, v |-> r.v]
    /\ UNCHANGED <<na, nb, tx, ty, tz, cpuVars, codecVars, schedVars>>

---------------------------------------------------------------------------
(* CpuSet (lowlevel/sched.rs), 64-bit target.  A word of the backing array *)
(* is the set of its bit positions that are 1.                             *)

CPU_SET_SIZE == 16      \* words in the backing array
MapBits == 64           \* bits in one word (Map = u64)
MapBytes == 8           \* size_of::<Map>(), which counts bytes

\* the bit count of the backing storage
Capacity == MapBits * CPU_SET_SIZE

\* core indices a caller passes: within CoreSpan of the places where the
\* index arithmetic changes word, and of the ends of the mask
CoreSpan == 1
CoreSamples ==
    {c \in 0..(Capacity + CoreSpan) :
        \E b \in {0, MapBytes, MapBits, MapBytes * CPU_SET_SIZE, Capacity} :
            c >= b - CoreSpan /\ c <= b + CoreSpan}

\* set / clear calls one caller makes in a run
MaxCpuOps == 2

empty == [w \in 0..(CPU_SET_SIZE - 1) |-> {}]
full == [w \in 0..(CPU_SET_SIZE - 1) |-> 0..(MapBits - 1)]

\* the outcome of a call that indexes the array: the mask (or bit) it
\* returns, or the panic of an index out of bounds
MaskOk(m) == [panic |-> FALSE, m |-> m]
MaskPanic == [panic |-> TRUE, m |-> empty]
BitOk(v) == [panic |-> FALSE, val |-> v]
BitPanic == [panic |-> TRUE, val |-> FALSE]

\* CpuSet::set: bits[core / size_of::<Map>()] |= 1 << (core % size_of::<Map>())
set(m, core) ==
    LET idx == core \div MapBytes
        bit == core % MapBytes
    IN  IF idx >= CPU_SET_SIZE THEN MaskPanic
        ELSE MaskOk([m EXCEPT ![idx] = @ \cup {bit}])

\* CpuSet::clear: bits[core / size_of::<Map>()] &= 1 << (core % size_of::<Map>())
clear(m, core) ==
    LET idx == core \div MapBytes
        bit == core % MapBytes
    IN  IF idx >= CPU_SET_SIZE THEN MaskPanic
        ELSE MaskOk([m EXCEPT ![idx] = @ \cap {bit}])

\* CpuSet::is_set: bits[core / size_of::<Map>()] & (1 << (core % size_of::<Map>())) > 0
is_set(m, core) ==
    LET idx == core \div MapBytes
        bit == core % MapBytes
    IN  IF idx >= CPU_SET_SIZE THEN BitPanic
        ELSE BitOk(bit \in m[idx])

\* mutant: the number of words of the mask
CpuSet_size_in_words == CPU_SET_SIZE

\* CpuSet::size_of: the byte size of the mask
CpuSet_size_of == CPU_SET_SIZE * MapBytes

CsCall(op, core, panic, val) == [op |-> op, core |-> core, panic |-> panic, val |-> val]

\* cs = cs.set(core)
CsSet ==
    /\ ~csOp.panic /\ csOps < MaxCpuOps
    /\ \E core \in CoreSamples :
        LET r == set(cs, core)
        IN  /\ cs' = r.m
            /\ csOp' = CsCall("set", core, r.panic, FALSE)
    /\ csPrev' = cs
    /\ csOps' = csOps + 1
    /\ UNCHANGED <<timeVars, codecVars, schedVars>>

\* cs = cs.clear(core)
CsClear ==
    /\ ~csOp.panic /\ csOps < MaxCpuOps
    /\ \E core \in CoreSamples :
        LET r == clear(cs, core)
        IN  /\ cs' = r.m
            /\ csOp' = CsCall("clear", core, r.panic, FALSE)
    /\ csPrev' = cs
    /\ csOps' = csOps + 1
    /\ UNCHANGED <<timeVars, codecVars, schedVars>>

\* cs.is_set(core)
CsIsSet ==
    /\ ~csOp.panic
    /\ \E core \in CoreSamples :
        LET r == is_set(cs, core)
        IN  csOp' = CsCall("is_set", core, r.panic, r.val)
    /\ UNCHANGED <<cs, csPrev, csOps, timeVars, codecVars, schedVars>>

---------------------------------------------------------------------------
(* Policy (sched.rs) and ClockId (clock.rs)                                *)

SCHED_NORMAL == 0
SCHED_FIFO == 1
SCHED_RR == 2
SCHED_BATCH == 3
SCHED_IDLE == 5
SCHED_DEADLINE == 6
SCHED_EXT == 7

Policies == {"Normal", "Batch", "Idle", "Fifo", "RoundRobin", "Deadline", "Ext"}

\* raw codes tried: 0..MaxRawCode for a u32, -MaxRawCode..MaxRawCode for a c_int
MaxRawCode == 20

Ok(v) == [ok |-> TRUE, v |-> v]
Err == [ok |-> FALSE, v |-> "Error"]
None == [ok |-> FALSE, v |-> "None"]

\* Policy::as_raw
Policy_as_raw(p) ==
    CASE p = "Batch" -> SCHED_BATCH
      [] p = "Deadline" -> SCHED_DEADLINE
      [] p = "Fifo" -> SCHED_FIFO
      [] p = "Idle" -> SCHED_IDLE
      [] p = "Normal" -> SCHED_NORMAL
      [] p = "RoundRobin" -> SCHED_RR
      [] p = "Ext" -> SCHED_EXT

\* Policy::into_raw
Policy_into_raw(p) == Policy_as_raw(p)

\* mutant: the retired code 4 decoded as Idle
Policy_from_raw_4(raw) ==
    CASE raw = SCHED_NORMAL -> Ok("Normal")
      [] raw = SCHED_FIFO -> Ok("Fifo")
      [] raw = SCHED_RR -> Ok("RoundRobin")
      [] raw = SCHED_BATCH -> Ok("Batch")
      [] raw = SCHED_IDLE \/ raw = SCHED_IDLE - 1 -> Ok("Idle")
      [] raw = SCHED_DEADLINE -> Ok("Deadline")
      [] raw = SCHED_EXT -> Ok("Ext")
      [] OTHER -> Err

\* Policy::from_raw
Policy_from_raw(raw) ==
    CASE raw = SCHED_NORMAL -> Ok("Normal")
      [] raw = SCHED_FIFO -> Ok("Fifo")
      [] raw = SCHED_RR -> Ok("RoundRobin")
      [] raw = SCHED_BATCH -> Ok("Batch")
      [] raw = SCHED_IDLE -> Ok("Idle")
      [] raw = SCHED_DEADLINE -> Ok("Deadline")
      [] raw = SCHED_EXT -> Ok("Ext")
      [] OTHER -> Err

CLOCK_REALTIME == 0
CLOCK_MONOTONIC == 1
CLOCK_PROCESS_CPUTIME_ID == 2
CLOCK_THREAD_CPUTIME_ID == 3
CLOCK_MONOTONIC_RAW == 4
CLOCK_REALTIME_COARSE == 5
CLOCK_MONOTONIC_COARSE == 6
CLOCK_BOOTTIME == 7
CLOCK_REALTIME_ALARM == 8
CLOCK_BOOTTIME_ALARM == 9
CLOCK_SGI_CYCLE == 10
CLOCK_TAI == 11

ClockIds ==
    {"ClockRealtime", "ClockRealtimeAlarm", "ClockRealtimeCoarse", "ClockTai",
     "ClockMonotonic", "ClockMonotonicCoarse", "ClockMonotonicRaw", "ClockBoottime",
     "ClockBoottimeAlarm", "ClockProcessCputimeId", "ClockThreadCputimeId"}

\* ClockId::as_raw
ClockId_as_raw(c) ==
    CASE c = "ClockRealtime" -> CLOCK_REALTIME
      [] c = "ClockRealtimeAlarm" -> CLOCK_REALTIME_ALARM
      [] c = "ClockRealtimeCoarse" -> CLOCK_REALTIME_COARSE
      [] c = "ClockTai" -> CLOCK_TAI
      [] c = "ClockMonotonic" -> CLOCK_MONOTONIC
      [] c = "ClockMonotonicCoarse" -> CLOCK_MONOTONIC_COARSE
      [] c = "ClockMonotonicRaw" -> CLOCK_MONOTONIC_RAW
      [] c = "ClockBoottime" -> CLOCK_BOOTTIME
      [] c = "ClockBoottimeAlarm" -> CLOCK_BOOTTIME_ALARM
      [] c = "ClockProcessCputimeId" -> CLOCK_PROCESS_CPUTIME_ID
      [] c = "ClockThreadCputimeId" -> CLOCK_THREAD_CPUTIME_ID

\* mutant: the retired identifier 10 decoded as ClockTai
ClockId_from_raw_10(clockid) ==
    CASE clockid = CLOCK_REALTIME -> Ok("ClockRealtime")
      [] clockid = CLOCK_REALTIME_ALARM -> Ok("ClockRealtimeAlarm")
      [] clockid = CLOCK_REALTIME_COARSE -> Ok("ClockRealtimeCoarse")
      [] clockid = CLOCK_TAI \/ clockid = CLOCK_SGI_CYCLE -> Ok("ClockTai")
      [] clockid = CLOCK_MONOTONIC -> Ok("ClockMonotonic")
      [] clockid = CLOCK_MONOTONIC_COARSE -> Ok("ClockMonotonicCoarse")
      [] clockid = CLOCK_MONOTONIC_RAW -> Ok("ClockMonotonicRaw")
      [] clockid = CLOCK_BOOTTIME -> Ok("ClockBoottime")
      [] clockid = CLOCK_BOOTTIME_ALARM -> Ok("ClockBoottimeAlarm")
      [] clockid = CLOCK_PROCESS_CPUTIME_ID -> Ok("ClockProcessCputimeId")
      [] clockid = CLOCK_THREAD_CPUTIME_ID -> Ok("ClockThreadCputimeId")
      [] OTHER -> None

\* ClockId::from_raw
ClockId_from_raw(clockid) ==
    CASE clockid = CLOCK_REALTIME -> Ok("ClockRealtime")
      [] clockid = CLOCK_REALTIME_ALARM -> Ok("ClockRealtimeAlarm")
      [] clockid = CLOCK_REALTIME_COARSE -> Ok("ClockRealtimeCoarse")
      [] clockid = CLOCK_TAI -> Ok("ClockTai")
      [] clockid = CLOCK_MONOTONIC -> Ok("ClockMonotonic")
      [] clockid = CLOCK_MONOTONIC_COARSE -> Ok("ClockMonotonicCoarse")
      [] clockid = CLOCK_MONOTONIC_RAW -> Ok("ClockMonotonicRaw")
      [] clockid = CLOCK_BOOTTIME -> Ok("ClockBoottime")
      [] clockid = CLOCK_BOOTTIME_ALARM -> Ok("ClockBoottimeAlarm")
      [] clockid = CLOCK_PROCESS_CPUTIME_ID -> Ok("ClockProcessCputimeId")
      [] clockid = CLOCK_THREAD_CPUTIME_ID -> Ok("ClockThreadCputimeId")
      [] OTHER -> None

\* the record of one codec call: the type, the function, its argument (a
\* variant name or a raw code) and what it returned: as_raw and into_raw
\* return the raw code, from_raw returns res
CodecCall(kind, op, variant, raw, res) ==
    [ty |-> kind, op |-> op, variant |-> variant, raw |-> raw, res |-> res]

\* Policy::from_raw(raw)
PolicyFromRaw ==
    /\ \E raw \in 0..MaxRawCode :
            codec' = CodecCall("Policy", "from_raw", "", raw, Policy_from_raw(raw))
    /\ UNCHANGED <<timeVars, cpuVars, schedVars>>

\* p.as_raw()
PolicyAsRaw ==
    /\ \E p \in Policies :
            codec' = CodecCall("Policy", "as_raw", p, Policy_as_raw(p), None)
    /\ UNCHANGED <<timeVars, cpuVars, schedVars>>

\* p.into_raw()
PolicyIntoRaw ==
    /\ \E p \in Policies :
            codec' = CodecCall("Policy", "into_raw", p, Policy_into_raw(p), None)
    /\ UNCHANGED <<timeVars, cpuVars, schedVars>>

\* Policy::from_raw(p.as_raw())
PolicyRoundTrip ==
    /\ \E p \in Policies :
            codec' = CodecCall("Policy", "round_trip", p, Policy_as_raw(p),
                               Policy_from_raw(Policy_as_raw(p)))
    /\ UNCHANGED <<timeVars, cpuVars, schedVars>>

\* ClockId::from_raw(clockid)
ClockFromRaw ==
    /\ \E clockid \in -MaxRawCode..MaxRawCode :
            codec' = CodecCall("ClockId", "from_raw", "", clockid, ClockId_from_raw(clockid))
    /\ UNCHANGED <<timeVars, cpuVars, schedVars>>

\* c.as_raw()
ClockAsRaw ==
    /\ \E c \in ClockIds :
            codec' = CodecCall("ClockId", "as_raw", c, ClockId_as_raw(c), None)
    /\ UNCHANGED <<timeVars, cpuVars, schedVars>>

\* ClockId::from_raw(c.as_raw())
ClockRoundTrip ==
    /\ \E c \in ClockIds :
            codec' = CodecCall("ClockId", "round_trip", c, ClockId_as_raw(c),
                               ClockId_from_raw(ClockId_as_raw(c)))
    /\ UNCHANGED <<timeVars, cpuVars, schedVars>>

---------------------------------------------------------------------------
(* The scheduler surface (sched.rs) and the kernel it calls.  The kernel   *)
(* is the environment: it keeps one sched_attr record and one set of       *)
(* permitted CPUs per thread, and may refuse any call with an error.       *)

\* Pid::this(), and the thread id of the caller it stands for
ThisPid == 0
Caller == 1

\* the threads the kernel knows (those it keeps a record for), and the pid
\* arguments a caller passes: 0 (the calling thread), the caller's thread id,
\* and the next id, which names no thread when the caller is alone
Threads == DOMAIN kattr
PidArgs == {ThisPid, Caller, Caller + 1}
Resolve(pid) == IF pid = ThisPid THEN Caller ELSE pid

\* CPUs of the machine: 0..NrCpus-1
NrCpus == 128
OnlineCpus == 0..(NrCpus - 1)

\* policy codes the running kernel may report: 0..MaxPolicyCode
MaxPolicyCode == 8

\* calls of the scheduler surface in a run
MaxCalls == 2

SchedAttr(size, policy, flags, nice, priority, runtime, deadline, period, umin, umax) ==
    [size |-> size, sched_policy |-> policy, sched_flags |-> flags,
     sched_nice |-> nice, sched_priority |-> priority, sched_runtime |-> runtime,
     sched_deadline |-> deadline, sched_period |-> period,
     sched_util_min |-> umin, sched_util_max |-> umax]

\* size_of::<SchedAttr>(): 4 + 4 + 8 + 4 + 4 + 8 + 8 + 8 + 4 + 4 bytes
SchedAttrSize == 4 + 4 + 8 + 4 + 4 + 8 + 8 + 8 + 4 + 4

\* the record a kernel holds for a thread running under policy code `code`
\* (a 64-bit flags word is the set of its bit positions that are 1)
KernelRecord(code) ==
    SchedAttr(SchedAttrSize, code, {},
              0,
              IF code \in {SCHED_FIFO, SCHED_RR} THEN 1 ELSE 0,
              IF code = SCHED_DEADLINE THEN 1024 ELSE 0,
              IF code = SCHED_DEADLINE THEN 2048 ELSE 0,
              IF code = SCHED_DEADLINE THEN 4096 ELSE 0,
              0, 1024)

\* SchedFlags: the bit positions of 0x01, 0x02, 0x04, 0x10, 0x20, 0x40
SchedFlagBits == {0, 1, 2, 4, 5, 6}

\* `as i16` of a u64 flags word keeps its low 16 bits
as_i16(bits) == {b \in bits : b < 16}

\* mutant: a word with an unknown bit decoded as no flags at all
from_bits_or_empty(bits) == IF bits \subseteq SchedFlagBits THEN bits ELSE {}

\* SchedFlags::from_bits_truncate
from_bits_truncate(bits) == bits \cap SchedFlagBits

Attributes(policy, flags, nice, priority, runtime, deadline, period, umin, umax) ==
    [policy |-> policy, flags |-> flags, nice |-> nice, priority |-> priority,
     runtime_ns |-> runtime, deadline_ns |-> deadline, period_ns |-> period,
     sched_util_min |-> umin, sched_util_max |-> umax]

NoAttributes == Attributes("", {}, 0, 0, 0, 0, 0, 0, 0)

\* the CPUs the kernel reads from a mask: CPU c is bit c % 64 of word c / 64
KernelCpus(m) ==
    UNION {{w * MapBits + b : b \in m[w]} : w \in 0..(CPU_SET_SIZE - 1)}

\* the mask the kernel writes for a set of CPUs
KernelMask(cpus) ==
    [w \in 0..(CPU_SET_SIZE - 1) |-> {b \in 0..(MapBits - 1) : w * MapBits + b \in cpus}]

\* masks a caller hands over: empty, full, and empty().set(core) for the
\* sampled cores of the first two words
CallerMasks ==
    {empty, full} \cup {set(empty, core).m : core \in {c \in CoreSamples : c <= MapBytes + CoreSpan}}

\* the outcome of one call: what the caller gets (res: "ok", "err" with an
\* errno, or "panic"), whether the kernel performed the syscall (kok), the
\* mask and the length handed to or filled by the kernel
Outcome(op, pid, res, errno, kok, attrs, mask, len) ==
    [op |-> op, pid |-> pid, res |-> res, errno |-> errno, kok |-> kok,
     attrs |-> attrs, mask |-> mask, len |-> len]

NoOutcome == Outcome("none", 0, "ok", "", FALSE, NoAttributes, empty, 0)

\* errors the kernel may give for a thread that exists
KernelRefusals == {"EPERM"}

\* one syscall as issued: its name and the errno the kernel answered ("" on
\* success)
Syscall(name, err) == [name |-> name, err |-> err]

\* the kernel's answer to a syscall that names a thread: ESRCH for an id that
\* names no thread, else the refusal it chooses, else success
PidErrnoOf(ka, pid, refusal) == IF Resolve(pid) \notin DOMAIN ka THEN "ESRCH" ELSE refusal
PidErrno(pid, refusal) == PidErrnoOf(kattr, pid, refusal)

\* get_attr: sched_getattr into a zeroed record, then the record decoded;
\* ka is the kernel's table of records
get_attr_of(ka, pid, refusal) ==
    LET tid == Resolve(pid)
    IN  IF tid \notin DOMAIN ka
        THEN Outcome("get_attr", pid, "err", "ESRCH", FALSE, NoAttributes, empty, SchedAttrSize)
        ELSE IF refusal # ""
        THEN Outcome("get_attr", pid, "err", refusal, FALSE, NoAttributes, empty, SchedAttrSize)
        ELSE LET attr == ka[tid]
                 policy == Policy_from_raw(attr.sched_policy)
             IN  IF ~policy.ok
                 \* Policy::from_raw(..).unwrap() on an Err
                 THEN Outcome("get_attr", pid, "panic", "", TRUE, NoAttributes, empty,
                              SchedAttrSize)
                 ELSE Outcome("get_attr", pid, "ok", "", TRUE,
                              Attributes(policy.v,
                                         from_bits_truncate(as_i16(attr.sched_flags)),
                                         attr.sched_nice, attr.sched_priority,
                                         attr.sched_runtime, attr.sched_deadline,
                                         attr.sched_period, attr.sched_util_min,
                                         attr.sched_util_max),
                              empty, SchedAttrSize)

get_attr(pid, refusal) == get_attr_of(kattr, pid, refusal)

GetAttr ==
    /\ calls < MaxCalls /\ ret.res # "panic"
    /\ \E pid \in PidArgs, refusal \in KernelRefusals \cup {""} :
        /\ ret' = get_attr(pid, refusal)
        /\ sys' = <<Syscall("sched_getattr", PidErrno(pid, refusal))>>
    /\ calls' = calls + 1
    /\ UNCHANGED <<kattr, kaff, arg, kclock, procs, timeVars, cpuVars, codecVars>>

\* what one affinity call does: what it returns, the kernel's table of
\* permitted CPUs after it, and the syscall it issued
AffCall(o, kf, log) == [ret |-> o, kaff |-> kf, sys |-> log]

\* set_affinity: sched_setaffinity(pid, CpuSet::size_of(), mask); kf is the
\* kernel's table of permitted CPUs
set_affinity_of(kf, pid, m, refusal) ==
    LET tid == Resolve(pid)
        cpus == KernelCpus(m) \cap OnlineCpus
        kerr == IF PidErrnoOf(kf, pid, refusal) # "" THEN PidErrnoOf(kf, pid, refusal)
                ELSE IF cpus = {} THEN "EINVAL" ELSE ""
    IN  AffCall(Outcome("set_affinity", pid, IF kerr = "" THEN "ok" ELSE "err", kerr,
                        kerr = "", NoAttributes, m, CpuSet_size_of),
                IF kerr = "" THEN [kf EXCEPT ![tid] = cpus] ELSE kf,
                <<Syscall("sched_setaffinity", kerr)>>)

set_affinity(pid, m, refusal) == set_affinity_of(kaff, pid, m, refusal)

SetAffinity ==
    /\ calls < MaxCalls /\ ret.res # "panic"
    /\ \E pid \in PidArgs, m \in CallerMasks, refusal \in KernelRefusals \cup {""} :
        LET c == set_affinity(pid, m, refusal)
        IN  ret' = c.ret /\ kaff' = c.kaff /\ sys' = c.sys
    /\ calls' = calls + 1
    /\ UNCHANGED <<kattr, arg, kclock, procs, timeVars, cpuVars, codecVars>>

\* get_affinity: sched_getaffinity(pid, CpuSet::size_of(), &mut CpuSet::empty())
get_affinity_of(kf, pid, refusal) ==
    LET kerr == PidErrnoOf(kf, pid, refusal)
    IN  AffCall(Outcome("get_affinity", pid, IF kerr = "" THEN "ok" ELSE "err", kerr,
                        kerr = "", NoAttributes,
                        IF kerr = "" THEN KernelMask(kf[Resolve(pid)]) ELSE empty,
                        CpuSet_size_of),
                kf, <<Syscall("sched_getaffinity", kerr)>>)

get_affinity(pid, refusal) == get_affinity_of(kaff, pid, refusal)

GetAffinity ==
    /\ calls < MaxCalls /\ ret.res # "panic"
    /\ \E pid \in PidArgs, refusal \in KernelRefusals \cup {""} :
        LET c == get_affinity(pid, refusal)
        IN  ret' = c.ret /\ sys' = c.sys
    /\ calls' = calls + 1
    /\ UNCHANGED <<kattr, kaff, arg, kclock, procs, timeVars, cpuVars, codecVars>>

---------------------------------------------------------------------------
(* set_attr and the convenience setters (sched.rs)                         *)

\* `as u64` of an i16 flags word: the sign bit, if set, fills bits 16..63
as_u64(bits) == IF 15 \in bits THEN bits \cup (16..63) ELSE bits

\* mutant: the runtime and the deadline written to each other's field
set_attr_record_swapped(a) ==
    SchedAttr(SchedAttrSize, Policy_into_raw(a.policy), as_u64(a.flags),
              a.nice, a.priority, a.deadline_ns, a.runtime_ns, a.period_ns,
              a.sched_util_min, a.sched_util_max)

\* mutant: the record built with a nice value of 0
set_attr_record_no_nice(a) ==
    SchedAttr(SchedAttrSize, Policy_into_raw(a.policy), as_u64(a.flags),
              0, a.priority, a.runtime_ns, a.deadline_ns, a.period_ns,
              a.sched_util_min, a.sched_util_max)

\* the SchedAttr record set_attr builds from an Attributes value
set_attr_record(a) ==
    SchedAttr(SchedAttrSize, Policy_into_raw(a.policy), as_u64(a.flags),
              a.nice, a.priority, a.runtime_ns, a.deadline_ns, a.period_ns,
              a.sched_util_min, a.sched_util_max)

\* what one call does: what it returns, the kernel's records after it, and
\* the syscalls it issued
Call(o, ka, log) == [ret |-> o, kattr |-> ka, sys |-> log]

\* the same call made through a function of another name
Named(op, c) == [c EXCEPT !.ret.op = op]

\* mutant: every Result turned into Ok(())
and_unit_ok(kerr) == [res |-> "ok", errno |-> ""]

\* Result<usize, Errno>.and(Ok(())): an error goes to the caller as it is
and_unit(kerr) ==
    IF kerr # "" THEN [res |-> "err", errno |-> kerr] ELSE [res |-> "ok", errno |-> ""]

\* mutant: the record written to every thread the kernel knows
set_attr_every_thread(ka, pid, a, refusal) ==
    LET kerr == PidErrnoOf(ka, pid, refusal)
        r == and_unit(kerr)
    IN  Call(Outcome("set_attr", pid, r.res, r.errno, kerr = "", a, empty, SchedAttrSize),
             IF kerr = "" THEN [t \in DOMAIN ka |-> set_attr_record(a)] ELSE ka,
             <<Syscall("sched_setattr", kerr)>>)

\* set_attr: sched_setattr(pid, &mut record, 0); the kernel keeps the record
\* as written unless it answers with an error; ka is the kernel's table
set_attr_of(ka, pid, a, refusal) ==
    LET kerr == PidErrnoOf(ka, pid, refusal)
        r == and_unit(kerr)
    IN  Call(Outcome("set_attr", pid, r.res, r.errno, kerr = "", a, empty, SchedAttrSize),
             IF kerr = "" THEN [ka EXCEPT ![Resolve(pid)] = set_attr_record(a)]
                          ELSE ka,
             <<Syscall("sched_setattr", kerr)>>)

set_attr(pid, a, refusal) == set_attr_of(kattr, pid, a, refusal)

set_other(pid, nice, refusal) ==
    Named("set_other", set_attr(pid, Attributes("Normal", {}, nice, 0, 0, 0, 0, 0, 0), refusal))

set_batch(pid, nice, refusal) ==
    Named("set_batch", set_attr(pid, Attributes("Batch", {}, nice, 0, 0, 0, 0, 0, 0), refusal))

set_idle(pid, refusal) ==
    Named("set_idle", set_attr(pid, Attributes("Idle", {}, 0, 0, 0, 0, 0, 0, 0), refusal))

\* mutant: the priority written to the nice field
set_fifo_as_nice(pid, priority, refusal) ==
    Named("set_fifo", set_attr(pid, Attributes("Fifo", {}, priority, 0, 0, 0, 0, 0, 0), refusal))

set_fifo(pid, priority, refusal) ==
    Named("set_fifo", set_attr(pid, Attributes("Fifo", {}, 0, priority, 0, 0, 0, 0, 0), refusal))

set_rr(pid, priority, refusal) ==
    Named("set_rr",
          set_attr(pid, Attributes("RoundRobin", {}, 0, priority, 0, 0, 0, 0, 0), refusal))

\* the smallest runtime, deadline and period set_deadline lets through
DL_FLOOR == 1024

\* mutant: a call that fails in this layer and still reaches the kernel's
\* record of the calling thread
LocalEinval_writes(op, pid) ==
    Call(Outcome(op, pid, "err", "EINVAL", FALSE, NoAttributes, empty, 0),
         [kattr EXCEPT ![Caller] = KernelRecord(SCHED_DEADLINE)], <<>>)

\* a call that fails in this layer: EINVAL and no syscall
LocalEinval(op, pid) ==
    Call(Outcome(op, pid, "err", "EINVAL", FALSE, NoAttributes, empty, 0), kattr, <<>>)

\* mutant: set_deadline without its own checks
set_deadline_unchecked(pid, deadline_ns, period_ns, runtime_ns, refusal) ==
    Named("set_deadline",
          set_attr(pid, Attributes("Deadline", {}, 0, 0, runtime_ns, deadline_ns, period_ns,
                                   0, 0), refusal))

set_deadline(pid, deadline_ns, period_ns, runtime_ns, refusal) ==
    IF ~((runtime_ns <= deadline_ns) /\ (deadline_ns <= period_ns))
    THEN LocalEinval("set_deadline", pid)
    ELSE IF runtime_ns < DL_FLOOR \/ deadline_ns < DL_FLOOR \/ period_ns < DL_FLOOR
    THEN LocalEinval("set_deadline", pid)
    ELSE Named("set_deadline",
               set_attr(pid, Attributes("Deadline", {}, 0, 0, runtime_ns, deadline_ns,
                                        period_ns, 0, 0), refusal))

\* the arguments a caller holds: an Attributes value for set_attr, a nice
\* value, a priority, and the three times of set_deadline
Args(a, nice, priority, deadline_ns, period_ns, runtime_ns) ==
    [attrs |-> a, nice |-> nice, priority |-> priority,
     deadline_ns |-> deadline_ns, period_ns |-> period_ns, runtime_ns |-> runtime_ns]

NoArgs == Args(NoAttributes, 0, 0, 0, 0, 0)

\* a call takes effect: its result, the kernel's records and its syscalls
Apply(c) ==
    /\ ret' = c.ret /\ kattr' = c.kattr /\ sys' = c.sys
    /\ calls' = calls + 1
    /\ UNCHANGED <<kaff, arg, kclock, procs, timeVars, cpuVars, codecVars>>

SetAttr ==
    /\ calls < MaxCalls /\ ret.res # "panic"
    /\ \E pid \in PidArgs, refusal \in KernelRefusals \cup {""} :
        Apply(set_attr(pid, arg.attrs, refusal))

SetOther ==
    /\ calls < MaxCalls /\ ret.res # "panic"
    /\ \E pid \in PidArgs, refusal \in KernelRefusals \cup {""} :
        Apply(set_other(pid, arg.nice, refusal))

SetBatch ==
    /\ calls < MaxCalls /\ ret.res # "panic"
    /\ \E pid \in PidArgs, refusal \in KernelRefusals \cup {""} :
        Apply(set_batch(pid, arg.nice, refusal))

SetIdle ==
    /\ calls < MaxCalls /\ ret.res # "panic"
    /\ \E pid \in PidArgs, refusal \in KernelRefusals \cup {""} :
        Apply(set_idle(pid, refusal))

SetFifo ==
    /\ calls < MaxCalls /\ ret.res # "panic"
    /\ \E pid \in PidArgs, refusal \in KernelRefusals \cup {""} :
        Apply(set_fifo(pid, arg.priority, refusal))

SetRr ==
    /\ calls < MaxCalls /\ ret.res # "panic"
    /\ \E pid \in PidArgs, refusal \in KernelRefusals \cup {""} :
        Apply(set_rr(pid, arg.priority, refusal))

SetDeadline ==
    /\ calls < MaxCalls /\ ret.res # "panic"
    /\ \E pid \in PidArgs, refusal \in KernelRefusals \cup {""} :
        Apply(set_deadline(pid, arg.deadline_ns, arg.period_ns, arg.runtime_ns, refusal))

---------------------------------------------------------------------------
(* The rest of the layer: the priority ranges and sched_yield (sched.rs),  *)
(* and the clock operations (clock.rs) with the kernel's clocks.           *)

\* the clocks the kernel model keeps, the time they show at boot, the
\* latest time a run reaches, and the longest sleep asked for (seconds)
KernelClocks == {CLOCK_REALTIME, CLOCK_MONOTONIC}
BootClock == [c \in KernelClocks |-> 0]
MaxClock == 2
MaxSleep == 2

\* the clocks callers name
LayerClocks == {"ClockRealtime", "ClockMonotonic"}

\* the clocks callers ask to sleep on: the monotonic clock, and the CPU-time
\* clock of the thread, which clock_nanosleep does not take
SleepClocks == {"ClockMonotonic", "ClockThreadCputimeId"}

\* lowlevel/clock.rs
TIMER_ABSTIME == 1

\* a whole number of seconds as a TimeSpec
Seconds(n) == TimeSpec(FromInt(n), Zero)

\* the outcome of a call that names no thread: besides the fields of
\* Outcome, the number returned (value), the TimeSpec passed or filled (tp),
\* and what the kernel wrote through the `remain` pointer, if anything
LayerOutcome(op, res, errno, kok, value, tp, remain) ==
    [op |-> op, pid |-> ThisPid, res |-> res, errno |-> errno, kok |-> kok,
     attrs |-> NoAttributes, mask |-> empty, len |-> 0,
     value |-> value, tp |-> tp, remain |-> remain]

\* what one such call does: what it returns, the kernel's clocks after it,
\* and the syscalls it issued
ClockCall(o, kc, log) == [ret |-> o, kclock |-> kc, sys |-> log]

\* kernel: sched_get_priority_max / sched_get_priority_min of a policy code;
\* a kernel that does not know SCHED_EXT answers EINVAL for it
KernelPriority(which, code, knows_ext) ==
    IF code = SCHED_EXT /\ ~knows_ext THEN [err |-> "EINVAL", v |-> 0]
    ELSE IF code \in {SCHED_FIFO, SCHED_RR}
    THEN [err |-> "", v |-> IF which = "max" THEN 99 ELSE 1]
    ELSE [err |-> "", v |-> 0]

\* get_priority_max: the kernel's Result as it is
get_priority_max(pol, knows_ext) ==
    LET k == KernelPriority("max", Policy_into_raw(pol), knows_ext)
    IN  ClockCall(LayerOutcome("get_priority_max", IF k.err = "" THEN "ok" ELSE "err",
                               k.err, k.err = "", k.v, zeroed, NoTime),
                  kclock, <<Syscall("sched_get_priority_max", k.err)>>)

\* get_priority_min: the kernel's Result as it is
get_priority_min(pol, knows_ext) ==
    LET k == KernelPriority("min", Policy_into_raw(pol), knows_ext)
    IN  ClockCall(LayerOutcome("get_priority_min", IF k.err = "" THEN "ok" ELSE "err",
                               k.err, k.err = "", k.v, zeroed, NoTime),
                  kclock, <<Syscall("sched_get_priority_min", k.err)>>)

\* sched_yield: sched::sched_yield().and(Ok(()))
sched_yield(refusal) ==
    LET r == and_unit(refusal)
    IN  ClockCall(LayerOutcome("sched_yield", r.res, r.errno, refusal = "", 0, zeroed,
                               NoTime),
                  kclock, <<Syscall("sched_yield", refusal)>>)

\* get_time: clock_gettime into a zeroed TimeSpec, .and(Ok(tp))
get_time(clockid, refusal) ==
    LET r == and_unit(refusal)
        tp == IF refusal = "" THEN Seconds(kclock[ClockId_as_raw(clockid)]) ELSE zeroed
    IN  ClockCall(LayerOutcome("get_time", r.res, r.errno, refusal = "", 0, tp, NoTime),
                  kclock, <<Syscall("clock_gettime", refusal)>>)

\* set_time: clock_settime(clockid, &tp).and(Ok(())); the kernel sets
\* CLOCK_REALTIME only
set_time(clockid, secs, refusal) ==
    LET id == ClockId_as_raw(clockid)
        kerr == IF refusal # "" THEN refusal
                ELSE IF id # CLOCK_REALTIME THEN "EINVAL" ELSE ""
        r == and_unit(kerr)
    IN  ClockCall(LayerOutcome("set_time", r.res, r.errno, kerr = "", 0, Seconds(secs),
                               NoTime),
                  IF kerr = "" THEN [kclock EXCEPT ![id] = secs] ELSE kclock,
                  <<Syscall("clock_settime", kerr)>>)

\* kernel: clock_nanosleep(clockid, flags, tp, remain).  The thread sleeps
\* `slept` seconds; a signal that arrives before the time asked for has
\* passed ends the sleep with EINTR, and the kernel then writes the time
\* left through `remain` when the sleep is relative and the pointer is not
\* null.  A clock that cannot be slept on and a negative time are answered
\* with EINVAL.  The answer carries the clock id and the flags received.
clock_nanosleep(id, flags, secs, remain, slept, refusal) ==
    LET want == IF flags = TIMER_ABSTIME THEN Max(secs - kclock[id], 0) ELSE secs
        nap == Min(slept, want)
    IN  IF refusal # ""
        THEN [err |-> refusal, kclock |-> kclock, remain |-> NoTime,
              id |-> id, flags |-> flags]
        ELSE IF id \notin DOMAIN kclock \/ secs < 0
        THEN [err |-> "EINVAL", kclock |-> kclock, remain |-> NoTime,
              id |-> id, flags |-> flags]
        ELSE [err |-> IF nap < want THEN "EINTR" ELSE "",
              kclock |-> [c \in DOMAIN kclock |-> kclock[c] + nap],
              remain |-> IF nap < want /\ flags # TIMER_ABSTIME /\ remain # "null"
                         THEN SomeTime(Seconds(want - nap)) ELSE NoTime,
              id |-> id, flags |-> flags]

\* the outcome of a sleep: besides the fields of LayerOutcome, the ClockId
\* the caller chose (clock) and the clock id and flags the kernel received
SleepOutcome(op, res, errno, kok, tp, remain, clock, id, flags) ==
    [op |-> op, pid |-> ThisPid, res |-> res, errno |-> errno, kok |-> kok,
     attrs |-> NoAttributes, mask |-> empty, len |-> 0,
     value |-> 0, tp |-> tp, remain |-> remain,
     clock |-> clock, clockid |-> id, flags |-> flags]

\* mutant: the absolute sleep asked for with flags 0
nanosleep_absolute_flags_0(clockid, secs, slept, refusal) ==
    LET k == clock_nanosleep(ClockId_as_raw(clockid), 0, secs, "null", slept, refusal)
        r == and_unit(k.err)
    IN  ClockCall(SleepOutcome("nanosleep_absolute", r.res, r.errno, k.err = "",
                               Seconds(secs), k.remain, clockid, k.id, k.flags),
                  k.kclock, <<Syscall("clock_nanosleep", k.err)>>)

\* nanosleep_relative: clock_nanosleep(clockid, 0, &tp, null_mut()).and(Ok(()))
nanosleep_relative(clockid, secs, slept, refusal) ==
    LET k == clock_nanosleep(ClockId_as_raw(clockid), 0, secs, "null", slept, refusal)
        r == and_unit(k.err)
    IN  ClockCall(SleepOutcome("nanosleep_relative", r.res, r.errno, k.err = "",
                               Seconds(secs), k.remain, clockid, k.id, k.flags),
                  k.kclock, <<Syscall("clock_nanosleep", k.err)>>)

\* nanosleep_absolute: clock_nanosleep(clockid, TIMER_ABSTIME, &tp,
\* null_mut()).and(Ok(()))
nanosleep_absolute(clockid, secs, slept, refusal) ==
    LET k == clock_nanosleep(ClockId_as_raw(clockid), TIMER_ABSTIME, secs, "null", slept,
                             refusal)
        r == and_unit(k.err)
    IN  ClockCall(SleepOutcome("nanosleep_absolute", r.res, r.errno, k.err = "",
                               Seconds(secs), k.remain, clockid, k.id, k.flags),
                  k.kclock, <<Syscall("clock_nanosleep", k.err)>>)

\* a call of this part takes effect
ApplyClock(c) ==
    /\ ret' = c.ret /\ kclock' = c.kclock /\ sys' = c.sys
    /\ calls' = calls + 1
    /\ UNCHANGED <<kattr, kaff, arg, procs, timeVars, cpuVars, codecVars>>

GetPriorityMax ==
    /\ calls < MaxCalls /\ ret.res # "panic"
    /\ \E pol \in Policies, knows_ext \in BOOLEAN : ApplyClock(get_priority_max(pol, knows_ext))

GetPriorityMin ==
    /\ calls < MaxCalls /\ ret.res # "panic"
    /\ \E pol \in Policies, knows_ext \in BOOLEAN : ApplyClock(get_priority_min(pol, knows_ext))

SchedYield ==
    /\ calls < MaxCalls /\ ret.res # "panic"
    /\ \E refusal \in KernelRefusals \cup {""} : ApplyClock(sched_yield(refusal))

GetTime ==
    /\ calls < MaxCalls /\ ret.res # "panic"
    /\ \E clockid \in LayerClocks, refusal \in KernelRefusals \cup {""} :
        ApplyClock(get_time(clockid, refusal))

SetTime ==
    /\ calls < MaxCalls /\ ret.res # "panic"
    /\ \E clockid \in LayerClocks, secs \in 0..MaxClock, refusal \in KernelRefusals \cup {""} :
        ApplyClock(set_time(clockid, secs, refusal))

NanosleepRelative ==
    /\ calls < MaxCalls /\ ret.res # "panic"
    /\ \E clockid \in SleepClocks, secs \in -1..MaxSleep, slept \in 0..MaxSleep,
          refusal \in KernelRefusals \cup {""} :
        /\ slept <= Max(secs, 0)
        /\ \A c \in DOMAIN kclock : kclock[c] + slept <= MaxClock
        /\ ApplyClock(nanosleep_relative(clockid, secs, slept, refusal))

NanosleepAbsolute ==
    /\ calls < MaxCalls /\ ret.res # "panic"
    /\ \E clockid \in SleepClocks, secs \in -1..MaxClock, slept \in 0..MaxSleep,
          refusal \in KernelRefusals \cup {""} :
        /\ \A c \in DOMAIN kclock : kclock[c] + slept <= MaxClock
        /\ ApplyClock(nanosleep_absolute(clockid, secs, slept, refusal))

---------------------------------------------------------------------------
(* Callers running side by side.  The layer keeps nothing between calls,   *)
(* so a caller is its program and what it has read; each call is one       *)
(* syscall, which the kernel performs as one step.                         *)

\* two callers, each a thread the kernel knows
ConcCallers == {Caller, Caller + 1}

\* the steps of a caller's program: get_attr, set_attr of a given value,
\* set_attr of the value read last with one field changed (the write of a
\* read-modify-write), set_affinity of a mask, get_affinity
StepGet == [op |-> "get_attr"]
StepSet(a) == [op |-> "set_attr", attrs |-> a]
StepPut == [op |-> "put_back"]
StepSetAff(m) == [op |-> "set_affinity", mask |-> m]
StepGetAff == [op |-> "get_affinity"]

\* what each caller changes in a read-modify-write (the first the nice
\* value, the second the flags), the value each passes to a plain set_attr,
\* and the mask each passes to set_affinity
ConcField(c) == IF c = Caller THEN "nice" ELSE "flags"
ConcValue(c) == IF c = Caller THEN 10 ELSE {0}
ConcAttrs(c) ==
    IF c = Caller THEN Attributes("Batch", {}, 5, 0, 0, 0, 0, 0, 0)
    ELSE Attributes("Fifo", {1}, 0, 50, 0, 0, 0, 0, 0)
ConcMask(c) == set(empty, IF c = Caller THEN 0 ELSE 1).m

\* the programs a caller may run
ConcPrograms(c) ==
    {<<StepGet, StepPut>>,
     <<StepSet(ConcAttrs(c)), StepGet>>,
     <<StepSetAff(ConcMask(c)), StepGetAff>>}

\* the kernel's tables when the callers start
BootAttr == [t \in ConcCallers |-> KernelRecord(SCHED_NORMAL)]
BootAff == [t \in ConcCallers |-> OnlineCpus]

\* a caller about to start: its target, its program, its position (pc), the
\* Attributes it read last (held), the callers whose write was in the kernel
\* when it read (seen), whether its write has reached the kernel (wrote) and
\* whether that write was built from a read older than another caller's
\* write (stale), and the results of its calls.  alone_attr, alone_aff and
\* alone_results are what the kernel's tables and the results would be had
\* this caller's calls been the only ones.
Proc(target, prog) ==
    [target |-> target, prog |-> prog, pc |-> 1, held |-> NoAttributes, seen |-> {},
     wrote |-> FALSE, stale |-> FALSE, results |-> <<>>,
     alone_attr |-> BootAttr, alone_aff |-> BootAff, alone_results |-> <<>>]

\* the step a caller is at, if its program is not over
AtStep(c, op) ==
    /\ procs[c].pc <= Len(procs[c].prog)
    /\ procs[c].prog[procs[c].pc].op = op

\* the callers whose set_attr has been taken by the kernel
Landed == {d \in ConcCallers : procs[d].wrote}

\* a call returns to its caller: the shared part of every step
Returned(o, log) ==
    /\ ret' = o /\ sys' = log /\ calls' = calls + 1
    /\ UNCHANGED <<arg, kclock, timeVars, cpuVars, codecVars>>

\* get_attr(target); a caller whose read fails gives up
ConcGetAttr ==
    \E c \in ConcCallers, refusal \in KernelRefusals \cup {""} :
        LET p == procs[c]
            o == get_attr_of(kattr, p.target, refusal)
            oa == get_attr_of(p.alone_attr, p.target, refusal)
        IN  /\ AtStep(c, "get_attr")
            /\ procs' = [procs EXCEPT ![c] =
                            [p EXCEPT !.pc = IF o.res = "ok" THEN @ + 1 ELSE Len(p.prog) + 1,
                                      !.held = IF o.res = "ok" THEN o.attrs ELSE @,
                                      !.seen = IF o.res = "ok" THEN Landed ELSE @,
                                      !.results = Append(@, o),
                                      !.alone_results = Append(@, oa)]]
            /\ Returned(o, <<Syscall("sched_getattr", PidErrnoOf(kattr, p.target, refusal))>>)
            /\ UNCHANGED <<kattr, kaff>>

\* the write of a set_attr, of a given value or of the value read
ConcWrite(c, a, refusal) ==
    LET p == procs[c]
        w == set_attr_of(kattr, p.target, a, refusal)
        wa == set_attr_of(p.alone_attr, p.target, a, refusal)
    IN  /\ kattr' = w.kattr
        /\ procs' = [procs EXCEPT ![c] =
                        [p EXCEPT !.pc = @ + 1,
                                  !.wrote = @ \/ w.ret.res = "ok",
                                  !.stale = (Landed \ (p.seen \cup {c})) # {},
                                  !.results = Append(@, w.ret),
                                  !.alone_attr = wa.kattr,
                                  !.alone_results = Append(@, wa.ret)]]
        /\ Returned(w.ret, w.sys)
        /\ UNCHANGED kaff

\* set_attr(target, attrs)
ConcSetAttr ==
    \E c \in ConcCallers, refusal \in KernelRefusals \cup {""} :
        /\ AtStep(c, "set_attr")
        /\ ConcWrite(c, procs[c].prog[procs[c].pc].attrs, refusal)

\* set_attr(target, the Attributes read by get_attr with one field changed)
ConcPutBack ==
    \E c \in ConcCallers, refusal \in KernelRefusals \cup {""} :
        /\ AtStep(c, "put_back")
        /\ ConcWrite(c, [procs[c].held EXCEPT ![ConcField(c)] = ConcValue(c)], refusal)

\* set_affinity(target, mask)
ConcSetAffinity ==
    \E c \in ConcCallers, refusal \in KernelRefusals \cup {""} :
        LET p == procs[c]
            w == set_affinity_of(kaff, p.target, p.prog[p.pc].mask, refusal)
            wa == set_affinity_of(p.alone_aff, p.target, p.prog[p.pc].mask, refusal)
        IN  /\ AtStep(c, "set_affinity")
            /\ kaff' = w.kaff
            /\ procs' = [procs EXCEPT ![c] =
                            [p EXCEPT !.pc = @ + 1,
                                      !.results = Append(@, w.ret),
                                      !.alone_aff = wa.kaff,
                                      !.alone_results = Append(@, wa.ret)]]
            /\ Returned(w.ret, w.sys)
            /\ UNCHANGED kattr

\* get_affinity(target)
ConcGetAffinity ==
    \E c \in ConcCallers, refusal \in KernelRefusals \cup {""} :
        LET p == procs[c]
            o == get_affinity_of(kaff, p.target, refusal)
            oa == get_affinity_of(p.alone_aff, p.target, refusal)
        IN  /\ AtStep(c, "get_affinity")
            /\ procs' = [procs EXCEPT ![c] =
                            [p EXCEPT !.pc = @ + 1,
                                      !.results = Append(@, o.ret),
                                      !.alone_results = Append(@, oa.ret)]]
            /\ Returned(o.ret, o.sys)
            /\ UNCHANGED <<kattr, kaff>>

\* times a caller passes to set_deadline: on both sides of the floor, and
\* the values of the crate's tests
DlSamples == {500, DL_FLOOR - 1, DL_FLOOR, 50000, 1000000, 2000000}

\* bit positions of the kernel's flags word that are tried: the low byte
\* (0x01 .. 0x80), the sign bit of an i16, and bits beyond 16 bits
FlagBitSamples == (0..7) \cup {15, 16, 63}

---------------------------------------------------------------------------
(* The libc / nix variant of the scheduler surface (sched_linux.rs,        *)
(* sched_attr.rs), next to the raw-syscall one (sched.rs).                 *)

\* sched_linux.rs, Policy::from_raw: six policies, SCHED_OTHER for code 0
Linux_Policy_from_raw(raw) ==
    CASE raw = SCHED_NORMAL -> Ok("Other")
      [] raw = SCHED_FIFO -> Ok("Fifo")
      [] raw = SCHED_RR -> Ok("RoundRobin")
      [] raw = SCHED_BATCH -> Ok("Batch")
      [] raw = SCHED_IDLE -> Ok("Idle")
      [] raw = SCHED_DEADLINE -> Ok("Deadline")
      [] OTHER -> Err

\* sched_linux.rs, Policy::as_raw
Linux_Policy_as_raw(p) ==
    CASE p = "Batch" -> SCHED_BATCH
      [] p = "Deadline" -> SCHED_DEADLINE
      [] p = "Fifo" -> SCHED_FIFO
      [] p = "Idle" -> SCHED_IDLE
      [] p = "Other" -> SCHED_NORMAL
      [] p = "RoundRobin" -> SCHED_RR

\* sched_linux.rs, SchedFlags: the bit positions of 0x01, 0x02, 0x04
Linux_SchedFlagBits == {0, 1, 2}

\* sched_linux.rs, get_attr: SchedFlags::from_bits_truncate(sched_flags as i16)
Linux_decode_flags(word) == as_i16(word) \cap Linux_SchedFlagBits

\* sched_attr.rs, size_of::<SchedAttr>(): 4 + 4 + 8 + 4 + 4 + 8 + 8 + 8 bytes
Linux_SchedAttrSize == 4 + 4 + 8 + 4 + 4 + 8 + 8 + 8

\* sched_attr.rs, SchedAttr: the fields of the record
Linux_SchedAttrFields ==
    {"size", "sched_policy", "sched_flags", "sched_nice", "sched_priority",
     "sched_runtime", "sched_deadline", "sched_period"}

\* sched_linux.rs, set_deadline: whether the triple gets past the two checks
Linux_set_deadline_accepts(deadline_ns, period_ns, runtime_ns) ==
    IF ~((runtime_ns <= deadline_ns) /\ (deadline_ns <= period_ns)) THEN FALSE
    ELSE IF runtime_ns < 1024 \/ deadline_ns < 1024 \/ period_ns < 1024 THEN FALSE
    ELSE TRUE

\* the record of one comparison: what was asked, the argument, and the
\* answers of sched.rs and of sched_linux.rs
Both(op, x, raw_answer, linux_answer) ==
    [ty |-> "Dual", op |-> op, variant |-> "", raw |-> x,
     res |-> [sched |-> raw_answer, linux |-> linux_answer]]

\* Policy::from_raw(raw) in both
DualFromRaw ==
    /\ \E raw \in 0..MaxRawCode :
        LET a == Policy_from_raw(raw)
            b == Linux_Policy_from_raw(raw)
        IN  codec' = Both("from_raw", raw,
                          IF a.ok THEN Ok(Policy_as_raw(a.v)) ELSE a,
                          IF b.ok THEN Ok(Linux_Policy_as_raw(b.v)) ELSE b)
    /\ UNCHANGED <<timeVars, cpuVars, schedVars>>

\* the flags get_attr decodes from a word, in both
DualFlags ==
    /\ \E word \in SUBSET FlagBitSamples :
        codec' = Both("flags", word, from_bits_truncate(as_i16(word)),
                      Linux_decode_flags(word))
    /\ UNCHANGED <<timeVars, cpuVars, schedVars>>

\* the record handed to the kernel, in both: its size and its fields
DualRecord ==
    /\ codec' = Both("record", 0,
                     [size |-> SchedAttrSize,
                      fields |-> DOMAIN KernelRecord(SCHED_NORMAL)],
                     [size |-> Linux_SchedAttrSize, fields |-> Linux_SchedAttrFields])
    /\ UNCHANGED <<timeVars, cpuVars, schedVars>>

\* whether set_deadline lets a triple through to the kernel, in both
DualDeadline ==
    /\ \E d \in DlSamples, p \in DlSamples, r \in DlSamples :
        codec' = Both("set_deadline", <<d, p, r>>,
                      set_deadline(Caller, d, p, r, "").sys # <<>>,
                      Linux_set_deadline_accepts(d, p, r))
    /\ UNCHANGED <<timeVars, cpuVars, schedVars>>

---------------------------------------------------------------------------
(* Specifications: one per part of the crate; the other parts stand still. *)

TimeIdle == /\ na = Zero /\ nb = Zero
            /\ tx = NoTime /\ ty = NoTime /\ tz = NoSum /\ out = NoOut
CpuIdle == /\ cs = empty /\ csPrev = empty
           /\ csOp = CsCall("empty", 0, FALSE, FALSE) /\ csOps = 0
CodecIdle == codec = CodecCall("", "none", "", 0, None)
\* the clocks at boot, and no callers running side by side
LayerIdle == kclock = BootClock /\ procs = <<>>
SchedIdle == /\ kattr = [t \in {Caller} |-> KernelRecord(SCHED_NORMAL)]
             /\ kaff = [t \in {Caller} |-> OnlineCpus]
             /\ ret = NoOutcome /\ calls = 0 /\ sys = <<>> /\ arg = NoArgs
             /\ LayerIdle

\* a caller holding two i64 values
InitTime ==
    /\ na \in I64Inputs /\ nb \in I64Inputs
    /\ tx = NoTime /\ ty = NoTime /\ tz = NoSum /\ out = NoOut
    /\ CpuIdle /\ CodecIdle /\ SchedIdle

NextTime == BuildX \/ BuildY \/ TimeAdd \/ TimeSub \/ AsNanosX \/ AsNanosZ

SpecTime == InitTime /\ [][NextTime]_vars

\* a caller holding one i64 value, which builds its TimeSpec from it or
\* writes one field by field, and reads it in microseconds and milliseconds
InitUnits ==
    /\ na \in I64Inputs /\ nb = Zero
    /\ tx = NoTime /\ ty = NoTime /\ tz = NoSum /\ out = NoOut
    /\ CpuIdle /\ CodecIdle /\ SchedIdle

NextUnits == BuildX \/ LiteralX \/ AsMicrosX \/ AsMillisX

SpecUnits == InitUnits /\ [][NextUnits]_vars

\* a caller holding two TimeSpec values written field by field
InitRaw ==
    /\ na = Zero /\ nb = Zero
    /\ tx \in {SomeTime(t) : t \in RawTimes}
    /\ ty \in {SomeTime(t) : t \in RawTimes}
    /\ tz = NoSum /\ out = NoOut
    /\ CpuIdle /\ CodecIdle /\ SchedIdle

NextRaw == TimeAdd \/ TimeSub

SpecRaw == InitRaw /\ [][NextRaw]_vars

\* a caller holding CpuSet::empty() or CpuSet::full()
InitCpu ==
    /\ \E c \in {"empty", "full"} :
        /\ cs = (IF c = "empty" THEN empty ELSE full)
        /\ csOp = CsCall(c, 0, FALSE, FALSE)
    /\ csPrev = cs /\ csOps = 0
    /\ TimeIdle /\ CodecIdle /\ SchedIdle

NextCpu == CsSet \/ CsClear \/ CsIsSet

SpecCpu == InitCpu /\ [][NextCpu]_vars

InitCodec == TimeIdle /\ CpuIdle /\ CodecIdle /\ SchedIdle

NextCodec ==
    \/ PolicyFromRaw \/ PolicyAsRaw \/ PolicyIntoRaw \/ PolicyRoundTrip
    \/ ClockFromRaw \/ ClockAsRaw \/ ClockRoundTrip

SpecCodec == InitCodec /\ [][NextCodec]_vars

\* threads under any policy the kernel knows, allowed on every CPU
InitSched ==
    /\ kattr \in [{Caller} -> {KernelRecord(code) : code \in 0..MaxPolicyCode}]
    /\ kaff = [t \in {Caller} |-> OnlineCpus]
    /\ ret = NoOutcome /\ calls = 0 /\ sys = <<>> /\ arg = NoArgs
    /\ TimeIdle /\ CpuIdle /\ CodecIdle /\ LayerIdle

NextSched == GetAttr \/ SetAffinity \/ GetAffinity

SpecSched == InitSched /\ [][NextSched]_vars

\* a caller holding three times for set_deadline; the thread runs under
\* SCHED_NORMAL
InitDeadline ==
    /\ \E d \in DlSamples, p \in DlSamples, r \in DlSamples :
        arg = Args(NoAttributes, 0, 0, d, p, r)
    /\ kattr = [t \in {Caller} |-> KernelRecord(SCHED_NORMAL)]
    /\ kaff = [t \in {Caller} |-> OnlineCpus]
    /\ ret = NoOutcome /\ calls = 0 /\ sys = <<>>
    /\ TimeIdle /\ CpuIdle /\ CodecIdle /\ LayerIdle

NextDeadline == SetDeadline \/ GetAttr

SpecDeadline == InitDeadline /\ [][NextDeadline]_vars

\* Attributes values a caller passes to set_attr: every set of the six flags,
\* every policy, and values that differ in every numeric field
AttrInputs ==
    {Attributes("Normal", f, 0, 0, 0, 0, 0, 0, 0) : f \in SUBSET SchedFlagBits}
    \cup {Attributes(p, {}, 0, 0, 0, 0, 0, 0, 0) : p \in Policies}
    \cup {Attributes("Deadline", {1, 2}, 0, 0, 50000, 1000000, 2000000, 0, 0),
          Attributes("Normal", {5, 6}, -20, 0, 0, 0, 0, 128, 1024),
          Attributes("Batch", {4}, 19, 0, 0, 0, 0, 0, 512),
          Attributes("Fifo", {0}, 0, 99, 0, 0, 0, 0, 0),
          Attributes("RoundRobin", {}, 0, 1, 0, 0, 0, 0, 0)}

\* a caller holding an Attributes value, its nice value and priority for the
\* convenience setters, and the times of test_deadline; the thread runs
\* under SCHED_NORMAL
InitAttr ==
    /\ \E a \in AttrInputs :
        arg = Args(a, a.nice, a.priority, 1000000, 1000000, 50000)
    /\ kattr = [t \in {Caller} |-> KernelRecord(SCHED_NORMAL)]
    /\ kaff = [t \in {Caller} |-> OnlineCpus]
    /\ ret = NoOutcome /\ calls = 0 /\ sys = <<>>
    /\ TimeIdle /\ CpuIdle /\ CodecIdle /\ LayerIdle

NextAttr ==
    \/ SetAttr \/ SetOther \/ SetBatch \/ SetIdle \/ SetFifo \/ SetRr \/ SetDeadline
    \/ GetAttr

SpecAttr == InitAttr /\ [][NextAttr]_vars

\* a caller of the convenience setters, holding a nice value and a priority
\* inside and outside the ranges the kernel takes (-20..19 and 1..99), and
\* the times of test_setter or three distinct ones; the thread runs under
\* SCHED_NORMAL
SetterInputs ==
    {Args(NoAttributes, nice, priority, d, 2000000, 50000) :
        nice \in {-21, -20, 0, 19, 20}, priority \in {0, 1, 60, 99, 100},
        d \in {1000000, 2000000}}

InitSetters ==
    /\ arg \in SetterInputs
    /\ kattr = [t \in {Caller} |-> KernelRecord(SCHED_NORMAL)]
    /\ kaff = [t \in {Caller} |-> OnlineCpus]
    /\ ret = NoOutcome /\ calls = 0 /\ sys = <<>>
    /\ TimeIdle /\ CpuIdle /\ CodecIdle /\ LayerIdle

NextSetters ==
    SetOther \/ SetBatch \/ SetIdle \/ SetFifo \/ SetRr \/ SetDeadline \/ GetAttr

SpecSetters == InitSetters /\ [][NextSetters]_vars

\* a thread whose record holds any flags word over the sampled bits
InitFlags ==
    /\ \E w \in SUBSET FlagBitSamples :
        kattr = [t \in {Caller} |-> [KernelRecord(SCHED_NORMAL) EXCEPT !.sched_flags = w]]
    /\ kaff = [t \in {Caller} |-> OnlineCpus]
    /\ ret = NoOutcome /\ calls = 0 /\ sys = <<>> /\ arg = NoArgs
    /\ TimeIdle /\ CpuIdle /\ CodecIdle /\ LayerIdle

NextFlags == GetAttr

SpecFlags == InitFlags /\ [][NextFlags]_vars

\* a caller of the whole layer, holding an Attributes value and the times
\* for set_deadline, in order or not; the thread runs under SCHED_NORMAL
LayerInputs ==
    {Args(Attributes("Batch", {4}, 19, 0, 0, 0, 0, 0, 512), 19, 99, d, 2000000, 50000) :
        d \in {500, 1000000}}

InitLayer ==
    /\ arg \in LayerInputs
    /\ kattr = [t \in {Caller} |-> KernelRecord(SCHED_NORMAL)]
    /\ kaff = [t \in {Caller} |-> OnlineCpus]
    /\ ret = NoOutcome /\ calls = 0 /\ sys = <<>>
    /\ TimeIdle /\ CpuIdle /\ CodecIdle /\ LayerIdle

NextLayer ==
    \/ SetAttr \/ SetOther \/ SetBatch \/ SetIdle \/ SetFifo \/ SetRr \/ SetDeadline
    \/ GetAttr \/ GetPriorityMin \/ GetPriorityMax \/ SchedYield
    \/ SetAffinity \/ GetAffinity
    \/ GetTime \/ SetTime \/ NanosleepRelative \/ NanosleepAbsolute

SpecLayer == InitLayer /\ [][NextLayer]_vars

\* two callers, each with a target among the two threads and a program
InitConc ==
    /\ procs \in {[c \in ConcCallers |-> Proc(t[c], g[c])] :
                    t \in [ConcCallers -> ConcCallers],
                    g \in {f \in [ConcCallers -> UNION {ConcPrograms(c) : c \in ConcCallers}] :
                            \A c \in ConcCallers : f[c] \in ConcPrograms(c)}}
    /\ kattr = BootAttr /\ kaff = BootAff
    /\ ret = NoOutcome /\ calls = 0 /\ sys = <<>> /\ arg = NoArgs
    /\ kclock = BootClock
    /\ TimeIdle /\ CpuIdle /\ CodecIdle

NextConc ==
    ConcGetAttr \/ ConcSetAttr \/ ConcPutBack \/ ConcSetAffinity \/ ConcGetAffinity

SpecConc == InitConc /\ [][NextConc]_vars

InitDual == TimeIdle /\ CpuIdle /\ CodecIdle /\ SchedIdle

NextDual == DualFromRaw \/ DualFlags \/ DualRecord \/ DualDeadline

SpecDual == InitDual /\ [][NextDual]_vars

---------------------------------------------------------------------------
(* Properties of TimeSpec, checked under SpecTime.                         *)

\* C1: for every i64 n, i64::MIN and i64::MAX included,
\* TimeSpec::nanoseconds(n).as_nanoseconds() is n again, and neither the
\* product tv_sec * 1_000_000_000 nor the addition after it overflows.
C1_NanosRoundTrip ==
    out.of = "x" => (out.ok /\ out.v = na)

\* the round trip has been made from i64::MIN
C1_RoundTripAtMin ==
    /\ out.of = "x" /\ na = I64_MIN
    /\ tx.ts.tv_sec.neg /\ tx.ts.tv_nsec.neg

\* C2: for all i64 a and b whose sum fits in i64, the sum of
\* TimeSpec::nanoseconds(a) and TimeSpec::nanoseconds(b) is produced without
\* an overflow and its as_nanoseconds() is a + b.
C2_AddIsSum ==
    LET sum == Plus(na, nb)
    IN  /\ (tz.op = "add" /\ FitsI64(sum)) => tz.st = "ok"
        /\ (out.of = "add" /\ FitsI64(sum)) => (out.ok /\ out.v = sum)

\* i64::MAX and i64::MIN have been added and the sum read back as -1
C2_AddedMaxAndMin ==
    /\ out.of = "add" /\ na = I64_MAX /\ nb = I64_MIN
    /\ out.v = FromInt(-1)

\* C3: TimeSpec::nanoseconds(n) splits n with truncation toward zero:
\* n = tv_sec * 1_000_000_000 + tv_nsec with |tv_nsec| < 1_000_000_000, and
\* tv_sec and tv_nsec are each zero or of the sign of n; a negative n keeps
\* a negative remainder (1_999_999_999 -> (1, 999_999_999) and
\* -1_999_999_999 -> (-1, -999_999_999)).
C3_TruncatingSplit ==
    tx.st = "ok" =>
        LET sec == tx.ts.tv_sec
            nsec == tx.ts.tv_nsec
            scale == MulPow(FromInt(1), NANOS_PER_SEC_E3)
            n1 == Minus(MulPow(FromInt(2), NANOS_PER_SEC_E3), FromInt(1))
        IN  /\ Plus(MulPow(sec, NANOS_PER_SEC_E3), nsec) = na
            /\ MagCmp(nsec.mag, scale.mag) < 0
            /\ sec = Zero \/ sec.neg = na.neg
            /\ nsec = Zero \/ nsec.neg = na.neg
            /\ na = n1 => (sec = FromInt(1) /\ nsec = Minus(scale, FromInt(1)))
            /\ na = Neg(n1) => (sec = FromInt(-1) /\ nsec = Neg(Minus(scale, FromInt(1))))

\* -1_999_999_999 has been split, into a negative second and a negative
\* remainder
C3_SplitNegative ==
    /\ tx.st = "ok"
    /\ na = Neg(Minus(MulPow(FromInt(2), NANOS_PER_SEC_E3), FromInt(1)))
    /\ tx.ts.tv_sec = FromInt(-1) /\ tx.ts.tv_nsec.neg

---------------------------------------------------------------------------
(* Properties of CpuSet, checked under SpecCpu.                            *)

\* C4: for every mask m and every core index j below the capacity of the
\* mask (1024 bits), m.set(j) returns a mask on which is_set(j) is true and
\* is_set(k) is what it was on m for every other in-range k.
C4_SetSetsBitJ ==
    (csOp.op = "set" /\ csOp.core < Capacity) =>
        /\ ~csOp.panic
        /\ \A k \in 0..(Capacity - 1) :
            LET after == is_set(cs, k)
                before == is_set(csPrev, k)
            IN  /\ ~after.panic
                /\ after.val = (IF k = csOp.core THEN TRUE ELSE before.val)

\* set was called with core index 128, below the capacity of 1024, and
\* indexed past the end of the backing array
C4_SetInRangePanics ==
    /\ csOp.op = "set" /\ csOp.core = MapBytes * CPU_SET_SIZE
    /\ csOp.core < Capacity /\ csOp.panic

\* C5: for every mask m and every in-range core index j, m.clear(j) returns
\* a mask on which is_set(j) is false and is_set(k) is what it was on m for
\* every other in-range k: clear removes bit j and nothing else.
C5_ClearClearsBitJ ==
    (csOp.op = "clear" /\ csOp.core < Capacity) =>
        /\ ~csOp.panic
        /\ \A k \in 0..(Capacity - 1) :
            LET after == is_set(cs, k)
                before == is_set(csPrev, k)
            IN  /\ ~after.panic
                /\ after.val = (IF k = csOp.core THEN FALSE ELSE before.val)

\* clear(1) on the full mask left bit 1 set and removed bit 0
C5_ClearKeepsBitJ ==
    /\ csOp.op = "clear" /\ csOp.core = 1 /\ csPrev = full
    /\ is_set(cs, 1).val /\ ~is_set(cs, 0).val

\* C6: CpuSet::full().is_set(k) is true and CpuSet::empty().is_set(k) is
\* false for every core index k from 0 to capacity - 1 (capacity = 1024).
C6_FullAndEmpty ==
    (csOp.op = "is_set" /\ csOp.core < Capacity) =>
        /\ cs = full => (~csOp.panic /\ csOp.val)
        /\ cs = empty => (~csOp.panic /\ ~csOp.val)

\* is_set(128) on the full mask indexed past the end of the backing array
C6_IsSetInRangePanics ==
    /\ csOp.op = "is_set" /\ cs = full
    /\ csOp.core = MapBytes * CPU_SET_SIZE /\ csOp.core < Capacity
    /\ csOp.panic

---------------------------------------------------------------------------
(* Properties of the scheduler surface, checked under SpecSched.           *)

\* C7: the bit that set(j) writes is the bit the kernel reads as CPU j.  So
\* for every in-range j a successful set_affinity with CpuSet::empty().set(j)
\* permits exactly CPU j, and is_set(j) on the mask that get_affinity returns
\* is true exactly when the kernel allows CPU j.
C7_MaskMatchesKernel ==
    LET allowed == kaff[Resolve(ret.pid)]
    IN  /\ (ret.op = "set_affinity" /\ ret.res = "ok") =>
                \A j \in 0..(Capacity - 1) :
                    (~set(empty, j).panic /\ ret.mask = set(empty, j).m)
                        => allowed = {j}
        /\ (ret.op = "get_affinity" /\ ret.res = "ok") =>
                \A j \in 0..(Capacity - 1) :
                    LET r == is_set(ret.mask, j)
                    IN  ~r.panic /\ (r.val <=> j \in allowed)

\* set_affinity with CpuSet::empty().set(8) succeeded and the kernel now
\* permits CPU 64 alone
C7_Core8IsCpu64 ==
    /\ ret.op = "set_affinity" /\ ret.res = "ok"
    /\ ret.mask = set(empty, MapBytes).m
    /\ kaff[Resolve(ret.pid)] = {MapBits}

\* C10: when sched_getattr succeeds and the record carries a policy code
\* that Policy::from_raw does not recognize, get_attr returns an error to
\* its caller: no panic, no default policy in an Ok value.
C10_UnknownPolicyIsError ==
    (/\ ret.op = "get_attr" /\ ret.kok
     /\ ~Policy_from_raw(kattr[Resolve(ret.pid)].sched_policy).ok)
        => ret.res = "err"

\* get_attr panicked on a thread the kernel reports under the retired code 4
C10_UnknownPolicyPanics ==
    /\ ret.op = "get_attr" /\ ret.kok /\ ret.res = "panic"
    /\ kattr[Resolve(ret.pid)].sched_policy = SCHED_IDLE - 1

---------------------------------------------------------------------------
(* Properties of the codecs, checked under SpecCodec.                      *)

\* C8: Policy and its kernel code are a bijection over the codes
\* {0,1,2,3,5,6,7}: Policy::from_raw(p.as_raw()) is Ok(p) for each of the
\* seven policies, into_raw agrees with as_raw, and Policy::from_raw(r) is
\* an error for every other r, the retired code 4 included.
C8_PolicyBijection ==
    codec.ty = "Policy" =>
        /\ codec.op = "from_raw" =>
            /\ codec.res.ok <=> codec.raw \in {0, 1, 2, 3, 5, 6, 7}
            /\ codec.res.ok => (codec.res.v \in Policies
                                /\ Policy_as_raw(codec.res.v) = codec.raw)
            /\ ~codec.res.ok => codec.res = Err
        /\ codec.op = "round_trip" => codec.res = Ok(codec.variant)
        /\ codec.op = "into_raw" => codec.raw = Policy_as_raw(codec.variant)
        /\ codec.op = "as_raw" => codec.raw \in {0, 1, 2, 3, 5, 6, 7}

\* Policy::from_raw(4) was called and returned an error
C8_RetiredCodeRejected ==
    /\ codec.ty = "Policy" /\ codec.op = "from_raw"
    /\ codec.raw = 4 /\ codec.res = Err

\* C9: ClockId and its raw identifier are a bijection over the identifiers
\* {0..9, 11}: ClockId::from_raw(c.as_raw()) is Some(c) for each of the 11
\* variants, as_raw is injective, and ClockId::from_raw(r) is None for every
\* other r, the retired identifier 10 and every negative value included.
C9_ClockIdBijection ==
    codec.ty = "ClockId" =>
        /\ codec.op = "from_raw" =>
            /\ codec.res.ok <=> codec.raw \in (0..9) \cup {11}
            /\ codec.res.ok => (codec.res.v \in ClockIds
                                /\ ClockId_as_raw(codec.res.v) = codec.raw)
            /\ ~codec.res.ok => codec.res = None
        /\ codec.op = "round_trip" => codec.res = Ok(codec.variant)
        /\ codec.op = "as_raw" =>
            /\ codec.raw \in (0..9) \cup {11}
            /\ \A c \in ClockIds :
                ClockId_as_raw(c) = codec.raw => c = codec.variant

\* ClockId::from_raw(10) was called and returned None
C9_RetiredIdRejected ==
    /\ codec.ty = "ClockId" /\ codec.op = "from_raw"
    /\ codec.raw = 10 /\ codec.res = None

---------------------------------------------------------------------------
(* Properties of the setters, checked under SpecDeadline.                  *)

\* C11: set_deadline(pid, deadline_ns, period_ns, runtime_ns) issues the
\* sched_setattr syscall if and only if runtime_ns <= deadline_ns <=
\* period_ns and all three are at least 1024; for every other triple it
\* returns EINVAL, issues no syscall and leaves the thread's scheduling state
\* as it was.
C11_DeadlineValidatedLocally ==
    ret.op = "set_deadline" =>
        LET valid == /\ arg.runtime_ns <= arg.deadline_ns
                     /\ arg.deadline_ns <= arg.period_ns
                     /\ arg.runtime_ns >= 1024 /\ arg.deadline_ns >= 1024
                     /\ arg.period_ns >= 1024
        IN  /\ valid <=> (sys # <<>>)
            /\ valid => (Len(sys) = 1 /\ sys[1].name = "sched_setattr")
            /\ ~valid => /\ ret.res = "err" /\ ret.errno = "EINVAL"
                         /\ kattr[Caller] = KernelRecord(SCHED_NORMAL)

\* set_deadline(500, 1_000_000, 50_000) was rejected without a syscall
C11_BelowFloorRejected ==
    /\ ret.op = "set_deadline"
    /\ arg.deadline_ns = 500 /\ arg.period_ns = 1000000 /\ arg.runtime_ns = 50000
    /\ ret.errno = "EINVAL" /\ sys = <<>>

---------------------------------------------------------------------------
(* Properties of set_attr and get_attr, checked under SpecAttr.            *)

\* C12: when set_attr(pid, a), or a setter built on it, succeeds and the
\* kernel keeps the record as written, the next get_attr of the same thread
\* returns an Attributes value equal to a in every field (policy, flags,
\* nice, priority, runtime, deadline, period, util_min, util_max).
C12_SetThenGetRoundTrip ==
    [][(/\ ret.op \in {"set_attr", "set_other", "set_batch", "set_idle", "set_fifo",
                       "set_rr", "set_deadline"}
        /\ ret.res = "ok"
        /\ ret'.op = "get_attr" /\ ret'.kok
        /\ Resolve(ret'.pid) = Resolve(ret.pid))
            => (ret'.res = "ok" /\ ret'.attrs = ret.attrs)]_vars

\* get_attr after set_deadline(1_000_000, 1_000_000, 50_000) returned policy
\* Deadline with those three times
C12_DeadlineReadBack ==
    /\ ret.op = "get_attr" /\ ret.res = "ok"
    /\ ret.attrs.policy = "Deadline"
    /\ ret.attrs.deadline_ns = 1000000 /\ ret.attrs.period_ns = 1000000
    /\ ret.attrs.runtime_ns = 50000

---------------------------------------------------------------------------
(* Properties of the flags decoding, checked under SpecFlags.              *)

\* C20: get_attr decodes the kernel's 64-bit flags word to exactly the
\* defined flags (0x01, 0x02, 0x04, 0x10, 0x20, 0x40) whose bit is set in it:
\* every defined bit of the word is in the result, and every other bit
\* (0x08, 0x80, any bit at position 15 or higher) is dropped without an
\* error and without altering a defined bit.
C20_UnknownFlagBitsDropped ==
    (ret.op = "get_attr" /\ ret.kok) =>
        LET word == kattr[Resolve(ret.pid)].sched_flags
        IN  /\ ret.res = "ok"
            /\ \A b \in {0, 1, 2, 4, 5, 6} : b \in ret.attrs.flags <=> b \in word
            /\ \A b \in ret.attrs.flags : b \in {0, 1, 2, 4, 5, 6}

\* get_attr decoded a word with 0x08, 0x80, bit 15 and bit 63 set next to
\* 0x01 and 0x40
C20_MixedWordDecoded ==
    /\ ret.op = "get_attr" /\ ret.res = "ok"
    /\ kattr[Resolve(ret.pid)].sched_flags = {0, 3, 6, 7, 15, 63}
    /\ ret.attrs.flags = {0, 6}

---------------------------------------------------------------------------
(* The out-of-bounds guard of CpuSet, checked under SpecCpu.               *)

\* C18: set, clear and is_set report an out-of-bounds condition for a core
\* index at or beyond the capacity of the mask (1024), and for no core index
\* below it.
C18_GuardAtCapacity ==
    csOp.op \in {"set", "clear", "is_set"} =>
        (csOp.panic <=> csOp.core >= Capacity)

\* clear was called with core index 129, below the capacity, and was stopped
\* as out of bounds
C18_ClearBelowCapacityStopped ==
    /\ csOp.op = "clear" /\ csOp.core = MapBytes * CPU_SET_SIZE + 1
    /\ csOp.core < Capacity /\ csOp.panic

---------------------------------------------------------------------------
(* The two variants compared, checked under SpecDual.                      *)

\* C19: sched.rs and sched_linux.rs behave the same: Policy::from_raw gives
\* the same outcome for every raw code, the decoded flag set is the same for
\* every flags word, the record written to the kernel has the same fields
\* and size, and set_deadline accepts the same triples.
C19_VariantsAgree ==
    codec.ty = "Dual" => codec.res.sched = codec.res.linux

\* Policy::from_raw(7) was asked of both: SCHED_EXT in sched.rs, an error in
\* sched_linux.rs
C19_ExtOnlyInOne ==
    /\ codec.ty = "Dual" /\ codec.op = "from_raw" /\ codec.raw = SCHED_EXT
    /\ codec.res.sched = Ok(SCHED_EXT) /\ codec.res.linux = Err

---------------------------------------------------------------------------
(* The whole layer, checked under SpecLayer.                               *)

\* C13: a thread's scheduling record changes only in a step that is a
\* sched_setattr write issued by set_attr or a convenience setter that the
\* kernel accepted; get_attr, get_priority_min, get_priority_max,
\* get_affinity, set_affinity, sched_yield, every clock operation and a
\* set_deadline rejected before any syscall leave every record unchanged.
C13_OnlySetattrWrites ==
    [][/\ kattr' # kattr =>
            /\ ret'.op \in {"set_attr", "set_other", "set_batch", "set_idle", "set_fifo",
                            "set_rr", "set_deadline"}
            /\ ret'.res = "ok"
            /\ sys' = <<Syscall("sched_setattr", "")>>
       /\ (calls' # calls /\ ret'.op \in {"get_attr", "get_priority_min", "get_priority_max",
                                         "get_affinity", "set_affinity", "sched_yield",
                                         "get_time", "set_time", "nanosleep_relative",
                                         "nanosleep_absolute"})
            => kattr' = kattr
       /\ (calls' # calls /\ ret'.op = "set_deadline" /\ sys' = <<>>) => kattr' = kattr]_vars

\* a setter has put the thread under SCHED_FIFO, and the relative sleep made
\* after it has left the record as it was
C13_SleepAfterFifo ==
    /\ calls = 2 /\ ret.op = "nanosleep_relative" /\ ret.res = "ok"
    /\ kattr[Caller].sched_policy = SCHED_FIFO /\ kattr[Caller].sched_priority = 99

\* C16: every fallible operation issues at most one syscall per call, and
\* when that syscall fails with an error code the caller gets exactly that
\* code: no retry, no other code, no success in place of a failure.
C16_ErrorsPassThrough ==
    ret.op # "none" =>
        /\ Len(sys) <= 1
        /\ \A i \in 1..Len(sys) :
            /\ sys[i].err # "" => (ret.res = "err" /\ ret.errno = sys[i].err)
            /\ sys[i].err = "" => ret.res # "err"

\* an absolute sleep was interrupted, and EINTR is what the caller got
C16_InterruptedAbsoluteSleep ==
    /\ ret.op = "nanosleep_absolute" /\ ret.res = "err" /\ ret.errno = "EINTR"
    /\ sys = <<Syscall("clock_nanosleep", "EINTR")>>

\* C17: a relative sleep interrupted by a signal returns the interrupted
\* error without resuming, and the time not yet slept is available to the
\* caller for a retry.
C17_RemainAvailable ==
    (ret.op = "nanosleep_relative" /\ ret.errno = "EINTR") =>
        /\ ret.res = "err" /\ Len(sys) = 1
        /\ ret.remain.st = "ok"

\* a relative sleep of two seconds was interrupted after one: the caller has
\* EINTR and nothing was written for the second left
C17_InterruptedNoRemain ==
    /\ ret.op = "nanosleep_relative" /\ ret.res = "err" /\ ret.errno = "EINTR"
    /\ ret.tp = Seconds(2) /\ kclock[CLOCK_MONOTONIC] = 1
    /\ ret.remain = NoTime /\ sys = <<Syscall("clock_nanosleep", "EINTR")>>

---------------------------------------------------------------------------
(* Callers side by side, checked under SpecConc.                           *)

\* C14: callers that address different pids do not affect each other: in
\* every interleaving the record and the permitted CPUs of each pid, and the
\* result of every call, are what they would be had the calls addressed to
\* that pid run alone in their own order.
C14_DifferentPidsIndependent ==
    \A c \in DOMAIN procs :
        (\A d \in DOMAIN procs \ {c} : procs[d].target # procs[c].target) =>
            /\ procs[c].results = procs[c].alone_results
            /\ kattr[procs[c].target] = procs[c].alone_attr[procs[c].target]
            /\ kaff[procs[c].target] = procs[c].alone_aff[procs[c].target]

\* both callers are done: the first has put its own thread under SCHED_BATCH
\* and read that back, the second has narrowed the CPUs of the other thread
C14_BothDoneOnOwnTargets ==
    /\ DOMAIN procs = ConcCallers
    /\ \A c \in ConcCallers : procs[c].pc > Len(procs[c].prog)
    /\ procs[Caller].target = Caller /\ procs[Caller + 1].target = Caller + 1
    /\ Len(procs[Caller].results) = 2
    /\ procs[Caller].results[2].res = "ok"
    /\ procs[Caller].results[2].attrs = ConcAttrs(Caller)
    /\ kaff[Caller + 1] = KernelCpus(ConcMask(Caller + 1))
    /\ kaff[Caller] = OnlineCpus

\* C15: get_attr followed by set_attr on the same pid is not atomic.  With
\* two callers each reading, changing one field and writing back, a caller's
\* update is missing from the kernel's record once both have written exactly
\* when the other caller's write was built from a read made before that
\* update; and every get_attr returns a record as one call wrote it, whole.
C15_LostUpdateIffStaleRead ==
    /\ \A c \in DOMAIN procs, d \in DOMAIN procs :
        (/\ c # d /\ procs[c].target = procs[d].target
         /\ procs[c].prog[1].op = "get_attr" /\ procs[d].prog[1].op = "get_attr"
         /\ procs[c].wrote /\ procs[d].wrote)
            => LET now == get_attr_of(kattr, procs[c].target, "").attrs
               IN  (now[ConcField(c)] # ConcValue(c)) <=> procs[d].stale
    /\ \A c \in DOMAIN procs : \A i \in 1..Len(procs[c].results) :
        LET o == procs[c].results[i]
        IN  (o.op = "get_attr" /\ o.res = "ok") =>
                \/ o.attrs = get_attr_of(BootAttr, o.pid, "").attrs
                \/ \E d \in DOMAIN procs : \E j \in 1..Len(procs[d].results) :
                    /\ procs[d].results[j].op = "set_attr"
                    /\ procs[d].results[j].res = "ok"
                    /\ procs[d].results[j].pid = o.pid
                    /\ procs[d].results[j].attrs = o.attrs

\* both callers read the record of the first thread before either wrote;
\* the second wrote last, from its stale read, and the nice value the first
\* had set is gone
C15_NiceUpdateLost ==
    /\ DOMAIN procs = ConcCallers
    /\ \A c \in ConcCallers : procs[c].target = Caller /\ procs[c].wrote
    /\ procs[Caller].prog[1].op = "get_attr" /\ procs[Caller + 1].prog[1].op = "get_attr"
    /\ procs[Caller + 1].stale /\ ~procs[Caller].stale
    /\ kattr[Caller].sched_nice = 0 /\ kattr[Caller].sched_flags = {0}
    /\ procs[Caller].results[2].attrs.nice = 10

---------------------------------------------------------------------------
(* TimeSpec values written field by field, checked under SpecRaw.          *)

\* C21: for any two TimeSpec operands, canonical or not, whose arithmetic
\* does not overflow i64, x + y and x - y are canonical: the result is the
\* split of the total x.as_nanoseconds() +/- y.as_nanoseconds(), with
\* |tv_nsec| < 1_000_000_000 and tv_sec and tv_nsec never of opposite sign.
C21_ResultCanonical ==
    (tz.op \in {"add", "sub"} /\ tz.st = "ok") =>
        LET a == Plus(MulPow(tx.ts.tv_sec, NANOS_PER_SEC_E3), tx.ts.tv_nsec)
            b == Plus(MulPow(ty.ts.tv_sec, NANOS_PER_SEC_E3), ty.ts.tv_nsec)
            total == IF tz.op = "add" THEN Plus(a, b) ELSE Minus(a, b)
            sec == tz.ts.tv_sec
            nsec == tz.ts.tv_nsec
            scale == MulPow(FromInt(1), NANOS_PER_SEC_E3)
        IN  /\ Plus(MulPow(sec, NANOS_PER_SEC_E3), nsec) = total
            /\ MagCmp(nsec.mag, scale.mag) < 0
            /\ sec = Zero \/ nsec = Zero \/ sec.neg = nsec.neg
            /\ tz.ts = nanoseconds(total)

\* (1 s, -1_500_000_000 ns) and (-2 s, 1_000_000_000 ns), neither canonical,
\* have been added: the total of -1.5 s came out as (-1, -500_000_000)
C21_AddedTwoNonCanonical ==
    /\ tz.op = "add" /\ tz.st = "ok"
    /\ tx.ts = TimeSpec(FromInt(1), FromInt(-1500000000))
    /\ ty.ts = TimeSpec(FromInt(-2), FromInt(1000000000))
    /\ tz.ts = TimeSpec(FromInt(-1), FromInt(-500000000))

---------------------------------------------------------------------------
(* The coarser units of a TimeSpec, checked under SpecUnits.               *)

\* C22: for every i64 n, TimeSpec::nanoseconds(n).as_microseconds() is
\* n / 1_000 and .as_milliseconds() is n / 1_000_000, both truncated toward
\* zero, for negative n as well.  A TimeSpec written field by field gives the
\* truncated total too as long as its fields are not of opposite sign; with
\* opposite signs tv_sec * scale + tv_nsec / (1e9 / scale) can differ from it.
C22_CoarserUnitsTruncate ==
    LET e == IF out.of = "as_microseconds" THEN 1 ELSE 2
        sec == tx.ts.tv_sec
        nsec == tx.ts.tv_nsec
        total == Plus(MulPow(sec, NANOS_PER_SEC_E3), nsec)
    IN  out.of \in {"as_microseconds", "as_milliseconds"} =>
            /\ tx.ts = nanoseconds(na) => (out.ok /\ out.v = TruncDivPow(na, e))
            /\ (out.ok /\ (sec = Zero \/ nsec = Zero \/ sec.neg = nsec.neg))
                    => out.v = TruncDivPow(total, e)

\* (1 s, -1 ns) has been read in microseconds: 1_000_000, while its total of
\* 999_999_999 ns is 999_999 whole microseconds
C22_OppositeSignsDiffer ==
    /\ out.of = "as_microseconds" /\ out.ok
    /\ tx.ts = TimeSpec(FromInt(1), FromInt(-1))
    /\ out.v = FromInt(1000000)
    /\ TruncDivPow(Plus(MulPow(tx.ts.tv_sec, NANOS_PER_SEC_E3), tx.ts.tv_nsec), 1)
            = FromInt(999999)

---------------------------------------------------------------------------
(* The convenience setters, checked under SpecSetters.                     *)

\* C23: each convenience setter hands the kernel a record with its own
\* policy, the caller's parameter in the one field that policy uses, and
\* zero or empty everywhere else: set_other and set_batch (Normal or Batch,
\* nice) with priority 0; set_idle Idle with nice 0 and priority 0; set_fifo
\* and set_rr (Fifo or RoundRobin, priority) with nice 0; set_deadline
\* Deadline with nice 0, priority 0 and the three times; all with empty
\* flags and zero utilization clamps.  No setter checks nice or priority
\* itself: whatever their value, the syscall is issued.
C23_SetterRecords ==
    LET want ==
            CASE ret.op = "set_other" -> Attributes("Normal", {}, arg.nice, 0, 0, 0, 0, 0, 0)
              [] ret.op = "set_batch" -> Attributes("Batch", {}, arg.nice, 0, 0, 0, 0, 0, 0)
              [] ret.op = "set_idle" -> Attributes("Idle", {}, 0, 0, 0, 0, 0, 0, 0)
              [] ret.op = "set_fifo" -> Attributes("Fifo", {}, 0, arg.priority, 0, 0, 0, 0, 0)
              [] ret.op = "set_rr" ->
                    Attributes("RoundRobin", {}, 0, arg.priority, 0, 0, 0, 0, 0)
              [] ret.op = "set_deadline" ->
                    Attributes("Deadline", {}, 0, 0, arg.runtime_ns, arg.deadline_ns,
                               arg.period_ns, 0, 0)
              [] OTHER -> NoAttributes
    IN  /\ ret.op \in {"set_other", "set_batch", "set_idle", "set_fifo", "set_rr"} =>
            sys # <<>>
        /\ (ret.op \in {"set_other", "set_batch", "set_idle", "set_fifo", "set_rr",
                        "set_deadline"} /\ sys # <<>>) =>
            /\ sys[1].name = "sched_setattr"
            /\ ret.attrs = want
            /\ ret.res = "ok" =>
                kattr[Resolve(ret.pid)] =
                    SchedAttr(SchedAttrSize, Policy_as_raw(want.policy), {}, want.nice,
                              want.priority, want.runtime_ns, want.deadline_ns,
                              want.period_ns, 0, 0)

\* set_fifo was called with a priority of 100, beyond the kernel's range:
\* the record went to the kernel with priority 100 and nice 0
C23_FifoBeyondRange ==
    /\ ret.op = "set_fifo" /\ arg.priority = 100 /\ arg.nice = 20
    /\ sys # <<>> /\ sys[1].name = "sched_setattr"
    /\ ret.attrs.priority = 100 /\ ret.attrs.nice = 0

---------------------------------------------------------------------------
(* The lengths handed to the kernel, checked under SpecLayer.              *)

\* C24: on every call the length handed to the kernel is the compiled size
\* of the record handed with it: get_affinity and set_affinity pass
\* CpuSet::size_of(), the 128 bytes of the full mask; set_attr and the
\* setters write size_of::<SchedAttr>(), 56 bytes for the ten-field record,
\* into the size field; get_attr passes the same 56 as its size argument.
C24_LengthIsRecordSize ==
    /\ ret.op \in {"set_affinity", "get_affinity"} =>
        /\ ret.len = 128
        /\ ret.len = MapBytes * Cardinality(DOMAIN ret.mask)
    /\ ret.op = "get_attr" => ret.len = 56
    /\ (ret.op \in {"set_attr", "set_other", "set_batch", "set_idle", "set_fifo",
                    "set_rr", "set_deadline"} /\ sys # <<>>) =>
        /\ ret.len = 56
        /\ ret.res = "ok" =>
            /\ kattr[Resolve(ret.pid)].size = 56
            /\ DOMAIN kattr[Resolve(ret.pid)] =
                    {"size", "sched_policy", "sched_flags", "sched_nice", "sched_priority",
                     "sched_runtime", "sched_deadline", "sched_period", "sched_util_min",
                     "sched_util_max"}

\* set_attr has written a record of 56 bytes, and the get_affinity after it
\* passed 128 bytes
C24_WroteThenReadMask ==
    /\ calls = 2 /\ ret.op = "get_affinity" /\ ret.res = "ok" /\ ret.len = 128
    /\ kattr[Caller].sched_policy = SCHED_BATCH /\ kattr[Caller].size = 56

---------------------------------------------------------------------------
(* The two sleeps, checked under SpecLayer.                                *)

\* C25: nanosleep_absolute always passes TIMER_ABSTIME (1), so its TimeSpec
\* is a point on the clock's timeline, and a point already in the past
\* returns at once without error; nanosleep_relative always passes flags 0,
\* so its TimeSpec is a duration from now; both pass the raw identifier of
\* the ClockId chosen, and neither rejects a clock or a value itself: the
\* syscall is always issued.
C25_SleepFlags ==
    [][(calls' # calls /\ ret'.op \in {"nanosleep_absolute", "nanosleep_relative"}) =>
        /\ Len(sys') = 1 /\ sys'[1].name = "clock_nanosleep"
        /\ ret'.clockid = ClockId_as_raw(ret'.clock)
        /\ ret'.flags = (IF ret'.op = "nanosleep_absolute" THEN 1 ELSE 0)
        /\ \A s \in -1..Max(MaxClock, MaxSleep) :
            (ret'.tp = Seconds(s) /\ ret'.res = "ok") =>
                IF ret'.op = "nanosleep_absolute"
                THEN /\ s <= kclock[ret'.clockid] => kclock' = kclock
                     /\ s > kclock[ret'.clockid] => kclock'[ret'.clockid] = s
                ELSE kclock'[ret'.clockid] = kclock[ret'.clockid] + s
        /\ \A s \in 0..Max(MaxClock, MaxSleep) :
            (/\ ret'.op = "nanosleep_absolute" /\ ret'.tp = Seconds(s)
             /\ ret'.clockid \in DOMAIN kclock /\ s <= kclock[ret'.clockid]
             /\ sys'[1].err \notin KernelRefusals)
                => (ret'.res = "ok" /\ kclock' = kclock)]_vars

\* the clock stood at 2 s after a relative sleep, and an absolute sleep until
\* the point 1 s returned Ok with the clock still at 2 s
C25_PastPointReturnsAtOnce ==
    /\ calls = 2 /\ ret.op = "nanosleep_absolute" /\ ret.res = "ok"
    /\ ret.flags = 1 /\ ret.clock = "ClockMonotonic" /\ ret.clockid = CLOCK_MONOTONIC
    /\ ret.tp = Seconds(1) /\ kclock[CLOCK_MONOTONIC] = 2

===========================================================================
